---- MODULE Spec2Model ----
(***************************************************************************)
(* bevy_rewind: the type-erased history store.                             *)
(*                                                                         *)
(*   BlobDeque        (history/blob_deque.rs)        raw ring buffer       *)
(*   SparseBlobDeque  (history/sparse_blob_deque.rs) presence mask + ring  *)
(*   ComponentHistory (history/component_history.rs) ticks + removed mask  *)
(*                                                                         *)
(* A u64 mask is represented by the set of its set bit positions, a        *)
(* subset of 0..63 (bit 0 = least significant = newest tick).  Every mask  *)
(* operator below is defined to agree with the u64 operation it stands     *)
(* for, including the loss of bits shifted past bit 63.                    *)
(*                                                                         *)
(* Stored items have a non-zero size (layout.size() != 0) and a drop       *)
(* function (HistoryComponent::new always supplies one).  An item is       *)
(* represented by the value the initializer wrote; 0 is memory that was    *)
(* never written.                                                          *)
(***************************************************************************)
EXTENDS Integers, Sequences, FiniteSets, TLC

\* ------------------------------------------------------------------------
\* Bounds of the exploration
\* ------------------------------------------------------------------------
MaxCap == 3
MaxTick == 5
MaxVal == 2
MaxOps == 5
MaxRecorded == 4
MaxDequeCap == 4
MaxDequeOps == 6
MaxLoadTick == 2
MaxLoadOps == 4
MaxRollbackTick == 4
MaxFrames == 3
MaxSparseCap == 3
MaxSparseOps == 5
MaxNumericCap == 2
MaxNumericOps == 4
MaxInputTick == 14
MaxInputOps == 3
MaxQueueTick == 11
MaxAddTick == 3
MaxQueueOps == 4

\* ------------------------------------------------------------------------
\* Program constants
\* ------------------------------------------------------------------------
\* width of the masks (u64)
W == 64
\* smallest history size: RollbackFrames::history_size() = frames + 2
MinCap == 2
\* initial capacity of the ring inside a SparseBlobDeque
ItemsInitCap == 1
HistoryInitCap == 10
QueueCap == 30
PastCap == 3
RepeatLimit == 5

Caps == MinCap..MaxCap
Ticks == 0..MaxTick
Values == 1..MaxVal
Uninit == 0
None == -1

\* ------------------------------------------------------------------------
\* u64 helpers (masks as sets of bit positions)
\* ------------------------------------------------------------------------
AllBits == 0..(W - 1)

SetMin(S) == CHOOSE x \in S : \A y \in S : x <= y
SetMax(S) == CHOOSE x \in S : \A y \in S : x >= y
Min2(a, b) == IF a <= b THEN a ELSE b
Max2(a, b) == IF a >= b THEN a ELSE b
SatSub(a, b) == IF a >= b THEN a - b ELSE 0

\* 1 << k
Bit(k) == {k} \cap AllBits
\* (1 << n) - 1
LowBits(n) == {b \in AllBits : b < n}
\* !m
Not(m) == AllBits \ m
\* a ^ b
Xor(a, b) == (a \ b) \cup (b \ a)
\* m.wrapping_shl(n): the shift amount is taken modulo 64
Shl(m, n) == {b + (n % W) : b \in m} \cap AllBits
\* m.wrapping_shr(n)
Shr(m, n) == {b - (n % W) : b \in {x \in m : x >= (n % W)}}
\* m << n with n < 64 (bits past 63 are lost)
ShlPlain(m, n) == {b + n : b \in m} \cap AllBits
TrailingZeros(m) == IF m = {} THEN W ELSE SetMin(m)
LeadingZeros(m) == IF m = {} THEN W ELSE (W - 1) - SetMax(m)
CountOnes(m) == Cardinality(m)

\* ------------------------------------------------------------------------
\* BlobDeque
\*   capacity, len, start : the u8 fields
\*   data    : the allocation, one entry per slot
\*   dropped : the values the drop function was called on, in call order,
\*             since the current operation began
\*   inited  : the values the caller's initializer (write_fn) stored, in call
\*             order, since the current operation began
\*   panic   : an unwrap() in the current operation failed
\* ------------------------------------------------------------------------
BD_new(size) ==
    [capacity |-> size, len |-> 0, start |-> 0,
     data |-> [i \in 0..(size - 1) |-> Uninit],
     dropped |-> <<>>, inited |-> <<>>, panic |-> FALSE]

BD_get_offset(d, index) == (d.start + index) % d.capacity

BD_get(d, index) ==
    IF d.len < index + 1 THEN None ELSE d.data[BD_get_offset(d, index)]

\* variant of drop_front that forgets the item without calling its drop fn
BD_drop_front_NoDrop(d) ==
    IF d.len = 0 THEN d
    ELSE [d EXCEPT !.start = (d.start + 1) % d.capacity,
                   !.len = d.len - 1]

BD_drop_front(d) ==
    IF d.len = 0 THEN d
    ELSE [d EXCEPT !.dropped = Append(@, d.data[BD_get_offset(d, 0)]),
                   !.start = (d.start + 1) % d.capacity,
                   !.len = d.len - 1]

BD_drop_back(d) ==
    IF d.len = 0 THEN d
    ELSE [d EXCEPT !.dropped = Append(@, d.data[BD_get_offset(d, d.len - 1)]),
                   !.len = d.len - 1]

\* variant of new_ptr that overwrites the newest slot of a full deque
BD_new_ptr_OverwriteNewest(d) ==
    IF d.len = d.capacity
    THEN [d |-> d, offset |-> BD_get_offset(d, d.len - 1)]
    ELSE [d |-> [d EXCEPT !.len = d.len + 1], offset |-> BD_get_offset(d, d.len)]

\* new_ptr: the deque after the slot was reserved, and the slot's offset
BD_new_ptr(d) ==
    LET d1 == IF d.len = d.capacity
              THEN [d EXCEPT !.dropped = Append(@, d.data[BD_get_offset(d, 0)]),
                             !.len = d.len - 1,
                             !.start = (d.start + 1) % d.capacity]
              ELSE d
    IN [d |-> [d1 EXCEPT !.len = d1.len + 1], offset |-> BD_get_offset(d1, d1.len)]

BD_append(d, v) ==
    LET r == BD_new_ptr(d)
    IN [r.d EXCEPT !.data[r.offset] = v, !.inited = Append(@, v)]

\* core::ptr::copy(src, dst, n) on slots (memmove)
MemCopy(data, src, dst, n) ==
    [i \in DOMAIN data |->
        IF i >= dst /\ i < dst + n THEN data[src + (i - dst)] ELSE data[i]]

\* variant of new_ptr_at that does not shift the wrapped part of the buffer
BD_new_ptr_at_NoWrapShift(d, at) ==
    IF d.len = d.capacity \/ at > d.len
    THEN [ok |-> FALSE, d |-> d, offset |-> 0]
    ELSE
    LET d1 ==
          IF at = d.len THEN d
          ELSE IF at = 0
          THEN [d EXCEPT !.start = IF d.start = 0 THEN d.capacity - 1 ELSE d.start - 1]
          ELSE
            LET dataB == IF d.start + at < d.capacity
                               /\ d.start # 0 /\ d.capacity - d.len <= d.start
                         THEN MemCopy(d.data, d.capacity - 1, 0, 1)
                         ELSE d.data
                move_start == d.start + at
                dataC == IF d.start + at < d.capacity
                         THEN MemCopy(dataB, move_start, move_start + 1,
                                      d.capacity - move_start - 1)
                         ELSE dataB
            IN [d EXCEPT !.data = dataC]
    IN [ok |-> TRUE, d |-> [d1 EXCEPT !.len = d1.len + 1],
        offset |-> BD_get_offset(d1, at)]

\* variant of new_ptr_at that does not refuse a full deque
BD_new_ptr_at_NoFullCheck(d, at) ==
    IF at > d.len
    THEN [ok |-> FALSE, d |-> d, offset |-> 0]
    ELSE
    LET d1 ==
          IF at = d.len THEN d
          ELSE IF at = 0
          THEN [d EXCEPT !.start = IF d.start = 0 THEN d.capacity - 1 ELSE d.start - 1]
          ELSE
            LET first_half == d.capacity - d.start
                raw_pos == SatSub(at, first_half)
                dataA == IF d.capacity - d.len < d.start
                         THEN MemCopy(d.data, raw_pos, raw_pos + 1,
                                      d.len - first_half - raw_pos)
                         ELSE d.data
                dataB == IF d.start + at < d.capacity
                               /\ d.start # 0 /\ d.capacity - d.len <= d.start
                         THEN MemCopy(dataA, d.capacity - 1, 0, 1)
                         ELSE dataA
                move_start == d.start + at
                dataC == IF d.start + at < d.capacity
                         THEN MemCopy(dataB, move_start, move_start + 1,
                                      d.capacity - move_start - 1)
                         ELSE dataB
            IN [d EXCEPT !.data = dataC]
    IN [ok |-> TRUE, d |-> [d1 EXCEPT !.len = d1.len + 1],
        offset |-> BD_get_offset(d1, at)]

\* new_ptr_at: ok = FALSE is the None result
BD_new_ptr_at(d, at) ==
    IF d.len = d.capacity \/ at > d.len
    THEN [ok |-> FALSE, d |-> d, offset |-> 0]
    ELSE
    LET d1 ==
          IF at = d.len THEN d
          ELSE IF at = 0
          THEN [d EXCEPT !.start = IF d.start = 0 THEN d.capacity - 1 ELSE d.start - 1]
          ELSE
            LET first_half == d.capacity - d.start
                raw_pos == SatSub(at, first_half)
                dataA == IF d.capacity - d.len < d.start
                         THEN MemCopy(d.data, raw_pos, raw_pos + 1,
                                      d.len - first_half - raw_pos)
                         ELSE d.data
                dataB == IF d.start + at < d.capacity
                               /\ d.start # 0 /\ d.capacity - d.len <= d.start
                         THEN MemCopy(dataA, d.capacity - 1, 0, 1)
                         ELSE dataA
                move_start == d.start + at
                dataC == IF d.start + at < d.capacity
                         THEN MemCopy(dataB, move_start, move_start + 1,
                                      d.capacity - move_start - 1)
                         ELSE dataB
            IN [d EXCEPT !.data = dataC]
    IN [ok |-> TRUE, d |-> [d1 EXCEPT !.len = d1.len + 1],
        offset |-> BD_get_offset(d1, at)]

\* variant of insert that ignores `at` and stores the item last
BD_insert_AtEnd(d, at, v) ==
    LET r == BD_new_ptr_at(d, d.len)
    IN IF r.ok THEN [ok |-> TRUE, d |-> [r.d EXCEPT !.data[r.offset] = v,
                                                    !.inited = Append(@, v)]]
       ELSE [ok |-> FALSE, d |-> d]

BD_insert(d, at, v) ==
    LET r == BD_new_ptr_at(d, at)
    IN IF r.ok THEN [ok |-> TRUE, d |-> [r.d EXCEPT !.data[r.offset] = v,
                                                    !.inited = Append(@, v)]]
       ELSE [ok |-> FALSE, d |-> d]

RECURSIVE DropRange(_, _, _, _)
\* for i in from..to: drop(get_mut(i)) with the start and capacity given
DropRange(d, from, to, acc) ==
    IF from >= to THEN acc
    ELSE DropRange(d, from + 1, to, Append(acc, d.data[(d.start + from) % d.capacity]))

\* variant of resize that copies only the part before the end of the old
\* allocation
BD_resize_FirstPartOnly(d, capacity) ==
    IF capacity = d.capacity THEN d
    ELSE
    LET lost == SatSub(d.len, capacity)
        start == d.start + lost
        first_part == Min2(SatSub(d.capacity, start), capacity)
    IN [d EXCEPT !.dropped = DropRange(d, 0, lost, d.dropped),
                 !.len = d.len - lost,
                 !.data = [i \in 0..(capacity - 1) |->
                             IF i < first_part THEN d.data[start + i] ELSE Uninit],
                 !.capacity = capacity, !.start = 0]

BD_resize(d, capacity) ==
    IF capacity = d.capacity THEN d
    ELSE
    LET lost == SatSub(d.len, capacity)
        dropped1 == DropRange(d, 0, lost, d.dropped)
        len1 == d.len - lost
        start == d.start + lost
        overflow == SatSub(start, d.capacity)
        first_part == Min2(SatSub(d.capacity, start), capacity)
        new0 == [i \in 0..(capacity - 1) |-> Uninit]
        new1 == [i \in 0..(capacity - 1) |->
                    IF i < first_part THEN d.data[start + i] ELSE new0[i]]
        l == Min2(capacity, len1) - first_part
        new2 == IF start # 0 /\ capacity > first_part /\ len1 > first_part
                THEN [i \in 0..(capacity - 1) |->
                        IF i >= first_part /\ i < first_part + l
                        THEN d.data[overflow + (i - first_part)] ELSE new1[i]]
                ELSE new1
    IN [d EXCEPT !.dropped = dropped1, !.len = len1, !.data = new2,
                 !.capacity = capacity, !.start = 0]

BD_clear(d) ==
    [d EXCEPT !.dropped = DropRange(d, 0, d.len, d.dropped),
              !.len = 0, !.start = 0]

RECURSIVE BD_drop_front_n(_, _)
\* for _ in 0..n { items.drop_front() }
BD_drop_front_n(d, n) ==
    IF n = 0 THEN d ELSE BD_drop_front_n(BD_drop_front(d), n - 1)

RECURSIVE BD_drop_back_n(_, _)
\* for _ in 0..n { items.drop_back() }
BD_drop_back_n(d, n) ==
    IF n = 0 THEN d ELSE BD_drop_back_n(BD_drop_back(d), n - 1)

\* ------------------------------------------------------------------------
\* SparseBlobDeque
\*   mask : presence mask, len, capacity : u8, items : the BlobDeque
\* ------------------------------------------------------------------------
SBD_new(cap) ==
    [mask |-> {}, len |-> 0, capacity |-> cap, items |-> BD_new(ItemsInitCap)]

SBD_stored_items(l) == l.items.len

SBD_get(l, index) ==
    IF index >= l.len THEN None
    ELSE LET index_bit == Bit(l.len - 1 - index)
         IN IF l.mask \cap index_bit = {} THEN None
            ELSE LET search_mask == Not(LowBits(l.len - 1 - index))
                     item_index == CountOnes(l.mask \cap search_mask) - 1
                 IN BD_get(l.items, item_index)

\* variant of append that never evicts the oldest slot of a full deque
SBD_append_NoEvict(l, write, v) ==
    LET mask1 == Shl(l.mask, 1)
        items1 == IF l.items.capacity = l.items.len /\ l.items.capacity # l.capacity
                  THEN BD_resize(l.items, l.items.capacity + 1)
                  ELSE l.items
    IN IF write
       THEN [l EXCEPT !.items = BD_append(items1, v),
                      !.mask = mask1 \cup Bit(0),
                      !.len = l.len + 1]
       ELSE [l EXCEPT !.mask = mask1, !.len = l.len + 1]

\* write: TRUE for Some(write_fn), whose initializer stores v
SBD_append(l, write, v) ==
    LET l1 == IF l.len = l.capacity
              THEN LET index_bit == Bit(l.len - 1)
                   IN [l EXCEPT !.items = IF l.mask \cap index_bit # {}
                                          THEN BD_drop_front(l.items) ELSE l.items,
                                !.mask = l.mask \ index_bit,
                                !.len = l.len - 1]
              ELSE l
        mask1 == Shl(l1.mask, 1)
        items1 == IF l1.items.capacity = l1.items.len /\ l1.items.capacity # l1.capacity
                  THEN BD_resize(l1.items, l1.items.capacity + 1)
                  ELSE l1.items
    IN IF write
       THEN [l1 EXCEPT !.items = BD_append(items1, v),
                       !.mask = mask1 \cup Bit(0),
                       !.len = l1.len + 1]
       ELSE [l1 EXCEPT !.mask = mask1, !.len = l1.len + 1]

SBD_extend_front(l, n) ==
    [l EXCEPT !.len = l.len + Min2(n % 256, l.capacity - l.len)]

\* variant of extend_back that leaves the presence mask unshifted
SBD_extend_back_NoShift(l, n) ==
    IF n >= l.capacity
    THEN [l EXCEPT !.items = BD_clear(l.items), !.mask = {}, !.len = l.capacity]
    ELSE LET search_mask == Shl(LowBits(n), l.capacity - n)
             ones == CountOnes(l.mask \cap search_mask)
         IN [l EXCEPT !.items = BD_drop_front_n(l.items, ones),
                      !.mask = l.mask \ search_mask,
                      !.len = Min2(l.len + n, l.capacity)]

SBD_extend_back(l, n) ==
    IF n >= l.capacity
    THEN [l EXCEPT !.items = BD_clear(l.items), !.mask = {}, !.len = l.capacity]
    ELSE LET search_mask == Shl(LowBits(n), l.capacity - n)
             ones == CountOnes(l.mask \cap search_mask)
         IN [l EXCEPT !.items = BD_drop_front_n(l.items, ones),
                      !.mask = Shl(l.mask \ search_mask, n),
                      !.len = Min2(l.len + n, l.capacity)]

SBD_clear(l) ==
    [l EXCEPT !.items = BD_clear(l.items), !.mask = {}, !.len = 0]

\* variant of trim_back that shifts the mask but keeps the trimmed items
SBD_trim_back_KeepItems(l, n) ==
    IF n >= l.len THEN SBD_clear(l)
    ELSE [l EXCEPT !.mask = Shr(l.mask, n), !.len = l.len - n]

SBD_trim_back(l, n) ==
    IF n >= l.len THEN SBD_clear(l)
    ELSE LET search_mask == LowBits(n)
             items_to_drop == CountOnes(l.mask \cap search_mask)
         IN [l EXCEPT !.items = BD_drop_back_n(l.items, items_to_drop),
                      !.mask = Shr(l.mask, n),
                      !.len = l.len - n]

\* variant of replace that always appends the new value to the ring
SBD_replace_AlwaysAppend(l, index, v) ==
    IF index >= l.len THEN l
    ELSE
    LET index_bit == Bit(l.len - 1 - index)
        items1 == IF l.items.len = l.items.capacity
                  THEN BD_resize(l.items, l.items.capacity + 1)
                  ELSE l.items
    IN [l EXCEPT !.mask = l.mask \cup index_bit,
                 !.items = BD_append(items1, v)]

SBD_replace(l, index, v) ==
    IF index >= l.len THEN l
    ELSE
    LET index_bit == Bit(l.len - 1 - index)
        search_mask == Not(LowBits(l.len - 1 - index))
        ones == CountOnes(l.mask \cap search_mask)
    IN IF l.mask \cap index_bit # {}
       THEN \* drop the old item in place, then run the initializer on the slot
            IF l.items.len < ones THEN l
            ELSE LET off == BD_get_offset(l.items, ones - 1)
                 IN [l EXCEPT !.items.dropped = Append(@, l.items.data[off]),
                              !.items.data[off] = v,
                              !.items.inited = Append(@, v)]
       ELSE
       LET items1 == IF l.items.len = l.items.capacity
                     THEN BD_resize(l.items, l.items.capacity + 1)
                     ELSE l.items
       IN IF (l.mask \cap Not(search_mask)) = {}
          THEN [l EXCEPT !.mask = l.mask \cup index_bit,
                         !.items = BD_append(items1, v)]
          ELSE LET r == BD_insert(items1, ones, v)
               IN [l EXCEPT !.mask = l.mask \cup index_bit,
                            !.items = IF r.ok THEN r.d
                                      ELSE [items1 EXCEPT !.panic = TRUE]]

\* ------------------------------------------------------------------------
\* ComponentHistory
\*   removed_mask : u64, list : SparseBlobDeque, last_tick : u32
\* ------------------------------------------------------------------------
\* TickData
Value(v) == [tag |-> "Value", v |-> v]
Removed == [tag |-> "Removed", v |-> 0]
Missing == [tag |-> "Missing", v |-> 0]

\* Some(ptr) => Value(ptr), None => Missing
FromOption(x) == IF x = None THEN Missing ELSE Value(x)

CH_new(size) ==
    [removed_mask |-> {}, list |-> SBD_new(size), last_tick |-> 0]

CH_len(h) == h.list.len

\* variant of first_tick that subtracts the number of leading zeros itself
CH_first_tick_LeadingZeros(h) ==
    SatSub(h.last_tick, LeadingZeros(h.removed_mask \cup h.list.mask))

CH_first_tick(h) ==
    SatSub(h.last_tick,
           SatSub(W - 1, LeadingZeros(h.removed_mask \cup h.list.mask)))

\* variant of get that never consults removed_mask
CH_get_NoRemovedMask(h, tick) ==
    IF tick > h.last_tick THEN Missing
    ELSE LET ago == h.last_tick - tick
         IN IF ago >= CH_len(h) THEN Missing
            ELSE FromOption(SBD_get(h.list, CH_len(h) - 1 - ago))

CH_get(h, tick) ==
    IF tick > h.last_tick THEN Missing
    ELSE LET ago == h.last_tick - tick
         IN IF ago >= CH_len(h) THEN Missing
            ELSE LET index == CH_len(h) - 1 - ago
                 IN IF h.removed_mask \cap Bit(ago) # {} THEN Removed
                    ELSE FromOption(SBD_get(h.list, index))

\* variant of get_latest that searches from the newest slot whatever the tick
CH_get_latest_NoSearchMask(h, tick) ==
    LET ago == SatSub(h.last_tick, tick)
    IN IF ago >= CH_len(h) THEN Missing
       ELSE LET removed_ago == TrailingZeros(h.removed_mask)
                item_ago == TrailingZeros(h.list.mask)
                len == h.list.len
            IN IF removed_ago > len /\ item_ago > len THEN Missing
               ELSE IF removed_ago <= item_ago THEN Removed
               ELSE FromOption(SBD_get(h.list, CH_len(h) - 1 - item_ago))

CH_get_latest(h, tick) ==
    LET ago == SatSub(h.last_tick, tick)
    IN IF ago >= CH_len(h) THEN Missing
       ELSE LET search_mask == Not(LowBits(ago))
                removed_ago == TrailingZeros(h.removed_mask \cap search_mask)
                item_ago == TrailingZeros(h.list.mask \cap search_mask)
                len == h.list.len
            IN IF removed_ago > len /\ item_ago > len THEN Missing
               ELSE IF removed_ago <= item_ago THEN Removed
               ELSE FromOption(SBD_get(h.list, CH_len(h) - 1 - item_ago))

\* variant of empty_after that does not clamp `ago` to the tracked window
CH_empty_after_NoClamp(h, tick) ==
    IF h.list.len = 0 THEN 0
    ELSE IF tick >= h.last_tick THEN W
    ELSE LET ago == h.last_tick - tick
             search_mask == IF ago >= W THEN AllBits ELSE LowBits(ago)
             empty == (h.list.mask \cup h.removed_mask) \cap search_mask
         IN LeadingZeros(empty) - SatSub(W, ago)

CH_empty_after(h, tick) ==
    IF h.list.len = 0 THEN 0
    ELSE IF tick >= h.last_tick THEN W
    ELSE LET ago == Min2(h.last_tick - tick, SatSub(CH_len(h), 1))
             search_mask == IF ago >= W THEN AllBits ELSE LowBits(ago)
             empty == (h.list.mask \cup h.removed_mask) \cap search_mask
         IN LeadingZeros(empty) - SatSub(W, ago)

\* trim_front's `len - 2` and `retained - 1` stay in range (usize)
CH_trim_front_InRange(h) == h.list.len >= 2

\* variant of trim_front that never moves the oldest fact
CH_trim_front_NoRelocation(h) == h

\* with len < 2 (capacity 1) `len - 2` is out of range: where the build
\* wraps, the shift amounts are taken modulo 64, search_mask is bit 63,
\* `search_mask << 1` is 0 and neither branch swaps
CH_trim_front(h) ==
    IF ~CH_trim_front_InRange(h) THEN h ELSE
    LET search_mask == Bit(h.list.len - 2)
        has_value == (h.removed_mask \cap search_mask)
                         \cup (h.list.mask \cap search_mask) # {}
        retained == h.list.len - 1
        \* 0b11 << (retained - 1)
        bits_to_swap == ShlPlain({0, 1}, retained - 1)
    IN IF has_value THEN h
       ELSE IF h.list.mask \cap ShlPlain(search_mask, 1) # {}
       THEN [h EXCEPT !.list.mask = Xor(@, bits_to_swap)]
       ELSE IF h.removed_mask \cap ShlPlain(search_mask, 1) # {}
       THEN [h EXCEPT !.removed_mask = Xor(@, bits_to_swap)]
       ELSE h

CH_fill_gaps(h, tick) ==
    IF h.list.len = 0 \/ tick <= h.last_tick + 1 THEN h
    ELSE
    LET gap == tick - 1 - h.last_tick
        cap == h.list.capacity
    IN
    IF gap >= cap
    THEN IF SBD_stored_items(h.list) = 0 /\ h.removed_mask = {}
         THEN [h EXCEPT !.list = SBD_extend_back(h.list, Min2(gap, cap)),
                        !.last_tick = h.last_tick + gap]
         ELSE
         LET newest_item == TrailingZeros(h.list.mask)
             newest_remove == TrailingZeros(h.removed_mask)
             newest_bit == Min2(newest_item, newest_remove)
             bits_to_swap == Bit(newest_bit) \cup Bit(0)
             h1 == IF newest_bit # 0
                   THEN IF newest_item < newest_remove
                        THEN [h EXCEPT !.list.mask = Xor(@, bits_to_swap)]
                        ELSE [h EXCEPT !.removed_mask = Bit(0)]
                   ELSE h
             cap_mask == IF cap < W THEN LowBits(cap) ELSE AllBits
             n == cap - 1
         IN [h1 EXCEPT !.list = SBD_extend_back(h1.list, n),
                       !.removed_mask = Shl(h1.removed_mask, n) \cap cap_mask,
                       !.last_tick = h.last_tick + gap]
    ELSE
    LET h1 ==
          IF h.list.len + gap > cap
          THEN LET new_first == h.list.len + gap - cap
                   retained == h.list.len - new_first
                   search_mask == Bit(retained - 1)
                   has_value == (h.removed_mask \cap search_mask)
                                    \cup (h.list.mask \cap search_mask) # {}
                   item_ago == TrailingZeros(Shr(h.list.mask, retained))
                   removed_ago == TrailingZeros(Shr(h.removed_mask, retained))
                   to_move == Min2(item_ago, removed_ago) + 1
                   bits_to_swap == Bit(retained - 1) \cup Bit(retained - 1 + to_move)
               IN IF ~has_value /\ (item_ago < W \/ removed_ago < W)
                  THEN IF item_ago < removed_ago
                       THEN [h EXCEPT !.list.mask = Xor(@, bits_to_swap)]
                       ELSE [h EXCEPT !.removed_mask = Xor(@, bits_to_swap)]
                  ELSE h
          ELSE h
    IN [h1 EXCEPT !.removed_mask = Shl(h1.removed_mask, gap),
                  !.list = SBD_extend_back(h1.list, gap),
                  !.last_tick = h.last_tick + gap]

\* variant of write without the `ago >= capacity` early return
CH_write_NoRetentionCheck(h, tick, v) ==
    LET h1 == CH_fill_gaps(h, tick)
    IN IF h1.list.len # 0 /\ tick <= h1.last_tick
       THEN LET ago == h1.last_tick - tick
                h2 == IF ago >= h1.list.len
                      THEN [h1 EXCEPT !.list =
                              SBD_extend_front(h1.list, ago - (h1.list.len - 1))]
                      ELSE h1
                index == CH_len(h2) - 1 - ago
            IN [h2 EXCEPT !.list = SBD_replace(h2.list, index, v)]
       ELSE LET h2 == IF h1.list.capacity = h1.list.len THEN CH_trim_front(h1) ELSE h1
            IN [h2 EXCEPT !.removed_mask = Shl(h2.removed_mask, 1),
                          !.list = SBD_append(h2.list, TRUE, v),
                          !.last_tick = tick]

CH_write(h, tick, v) ==
    LET h1 == CH_fill_gaps(h, tick)
    IN IF h1.list.len # 0 /\ tick <= h1.last_tick
       THEN LET ago == h1.last_tick - tick
            IN IF ago >= h1.list.capacity THEN h1
               ELSE LET h2 == IF ago >= h1.list.len
                              THEN [h1 EXCEPT !.list =
                                      SBD_extend_front(h1.list, ago - (h1.list.len - 1))]
                              ELSE h1
                        index == CH_len(h2) - 1 - ago
                    IN [h2 EXCEPT !.list = SBD_replace(h2.list, index, v)]
       ELSE LET h2 == IF h1.list.capacity = h1.list.len THEN CH_trim_front(h1) ELSE h1
            IN [h2 EXCEPT !.removed_mask = Shl(h2.removed_mask, 1),
                          !.list = SBD_append(h2.list, TRUE, v),
                          !.last_tick = tick]

CH_mark_removed(h, tick) ==
    IF h.list.len # 0 /\ tick <= h.last_tick
    THEN LET ago == h.last_tick - tick
         IN IF ago >= h.list.capacity THEN h
            ELSE LET h2 == IF ago >= h.list.len
                           THEN [h EXCEPT !.list =
                                   SBD_extend_front(h.list, ago - (h.list.len - 1))]
                           ELSE h
                 IN [h2 EXCEPT !.removed_mask = @ \cup Bit(ago)]
    ELSE LET h1 == CH_fill_gaps(h, tick)
             h2 == IF h1.list.capacity = h1.list.len THEN CH_trim_front(h1) ELSE h1
         IN [h2 EXCEPT !.removed_mask = Shl(h2.removed_mask, 1) \cup Bit(0),
                       !.list = SBD_append(h2.list, FALSE, Uninit),
                       !.last_tick = tick]

\* fill_gaps's `retained - 1` stays in range (usize)
CH_fill_gaps_InRange(h, tick) ==
    IF h.list.len = 0 \/ tick <= h.last_tick + 1 THEN TRUE
    ELSE LET gap == tick - 1 - h.last_tick
             cap == h.list.capacity
         IN IF gap >= cap THEN cap >= 1
            ELSE IF h.list.len + gap > cap
            THEN LET new_first == h.list.len + gap - cap
                     retained == h.list.len - new_first
                 IN new_first <= h.list.len /\ retained >= 1
            ELSE TRUE

\* every subtraction write performs stays in range
CH_write_InRange(h, tick) ==
    LET h1 == CH_fill_gaps(h, tick)
    IN /\ CH_fill_gaps_InRange(h, tick)
       /\ IF h1.list.len # 0 /\ tick <= h1.last_tick
          THEN LET ago == h1.last_tick - tick
               IN ago < h1.list.capacity =>
                      CH_len(IF ago >= h1.list.len
                             THEN [h1 EXCEPT !.list = SBD_extend_front(h1.list, ago - (h1.list.len - 1))]
                             ELSE h1) >= 1 + ago
          ELSE h1.list.capacity = h1.list.len => CH_trim_front_InRange(h1)

\* every subtraction mark_removed performs stays in range
CH_mark_removed_InRange(h, tick) ==
    IF h.list.len # 0 /\ tick <= h.last_tick THEN TRUE
    ELSE LET h1 == CH_fill_gaps(h, tick)
         IN /\ CH_fill_gaps_InRange(h, tick)
            /\ h1.list.capacity = h1.list.len => CH_trim_front_InRange(h1)

\* variant of clean that leaves removed_mask unshifted
CH_clean_KeepRemovedMask(h, retain_until) ==
    IF retain_until >= h.last_tick THEN h
    ELSE LET to_drop == h.last_tick - retain_until
         IN IF to_drop >= CH_len(h)
            THEN [h EXCEPT !.list = SBD_clear(h.list), !.last_tick = retain_until]
            ELSE [h EXCEPT !.list = SBD_trim_back(h.list, to_drop),
                           !.last_tick = h.last_tick - to_drop]

CH_clean(h, retain_until) ==
    IF retain_until >= h.last_tick THEN h
    ELSE LET to_drop == h.last_tick - retain_until
         IN IF to_drop >= CH_len(h)
            THEN [h EXCEPT !.list = SBD_clear(h.list), !.last_tick = retain_until]
            ELSE [h EXCEPT !.removed_mask = Shr(h.removed_mask, to_drop),
                           !.list = SBD_trim_back(h.list, to_drop),
                           !.last_tick = h.last_tick - to_drop]

\* variant of keep_first_item that retains up to the newest item
CH_keep_first_item_KeepsNewest(h) ==
    IF SBD_stored_items(h.list) = 0 THEN h
    ELSE CH_clean(h, SatSub(h.last_tick, TrailingZeros(h.list.mask)))

CH_keep_first_item(h) ==
    IF SBD_stored_items(h.list) = 0 THEN h
    ELSE LET zeros == LeadingZeros(h.list.mask)
             ago == (W - 1) - zeros
         IN CH_clean(h, SatSub(h.last_tick, ago))

\* Drop for ComponentHistory: BlobDeque::drop clears the ring
CH_drop(h) == [h EXCEPT !.list.items = BD_clear(h.list.items)]

\* ------------------------------------------------------------------------
\* InputHistory (bevy_rewind_input history.rs): a VecDeque of inputs ending
\* at tick updated_at
\*   list       : the inputs, oldest first
\*   capacity   : the VecDeque's capacity
\*   updated_at : the tick of the newest input
\* ------------------------------------------------------------------------
DefaultInput == 0

\* InputHistory::default
IH_default ==
    [list |-> <<>>, capacity |-> HistoryInitCap, updated_at |-> 0]

IH_first_tick(x) == SatSub(x.updated_at, SatSub(Len(x.list), 1))

IH_get(x, tick) ==
    IF tick > x.updated_at \/ tick < IH_first_tick(x) THEN None
    ELSE LET index == tick - IH_first_tick(x)
         IN IF index < Len(x.list) THEN x.list[index + 1] ELSE None

\* VecDeque::pop_front
VD_pop_front(x) ==
    IF x.list = <<>> THEN x ELSE [x EXCEPT !.list = Tail(@)]

\* VecDeque::push_back: a full deque grows before it stores the value
VD_push_back(x, value) ==
    [x EXCEPT !.list = Append(@, value),
              !.capacity = IF Len(x.list) = @ THEN Max2(2 * @, 4) ELSE @]

\* `while tick - self.first_tick() > capacity { pop_front() }`
RECURSIVE IH_pop_old(_, _)
IH_pop_old(x, tick) ==
    IF tick - IH_first_tick(x) > x.capacity /\ x.list # <<>>
    THEN IH_pop_old(VD_pop_front(x), tick)
    ELSE x

\* list.extend of n default inputs
RECURSIVE IH_extend_default(_, _)
IH_extend_default(x, n) ==
    IF n <= 0 THEN x
    ELSE IH_extend_default(VD_push_back(x, DefaultInput), n - 1)

\* variant of write that pushes the value without filling the skipped ticks
IH_write_NoFill(x, tick, value) ==
    IF tick <= x.updated_at THEN x
    ELSE LET x2 == IF Len(x.list) = x.capacity THEN VD_pop_front(x) ELSE x
         IN [VD_push_back(x2, value) EXCEPT !.updated_at = tick]

IH_write(x, tick, value) ==
    IF tick <= x.updated_at THEN x
    ELSE
    LET x1 == IF x.list # <<>> /\ tick > x.updated_at + 1
              THEN IF tick - x.updated_at > x.capacity
                   THEN [x EXCEPT !.list = <<>>]
                   ELSE IH_extend_default(IH_pop_old(x, tick),
                                          tick - x.updated_at - 1)
              ELSE x
        x2 == IF Len(x1.list) = x1.capacity THEN VD_pop_front(x1) ELSE x1
    IN [VD_push_back(x2, value) EXCEPT !.updated_at = tick]

\* InputHistory::reset
IH_reset(x) == [x EXCEPT !.updated_at = 0, !.list = <<>>]

\* ------------------------------------------------------------------------
\* InputQueue (bevy_rewind_input queue.rs)
\*   past    : the last inputs handed out, ArrayDeque<_, 3, Wrapping>
\*   queue   : the inputs waiting for their tick, ArrayDeque<_, 30>
\*   repeats : InputTrait::repeats of the input type
\* queue entries are records [tick, v]; past entries also carry orig, the
\* tick the input was queued for
\* ------------------------------------------------------------------------
IQ_default(repeats) == [past |-> <<>>, queue |-> <<>>, repeats |-> repeats]

\* RepliconTick - RepliconTick: the wrapping difference; for an earlier
\* minuend it is above every repeat limit
TickSince(tick, from_tick) ==
    IF tick >= from_tick THEN tick - from_tick ELSE RepeatLimit + 1

\* variant of repeated without the limit on `since`
IT_repeated_NoLimit(repeats, v, since) ==
    IF ~repeats THEN None ELSE v

\* InputTrait::repeated
IT_repeated(repeats, v, since) ==
    IF ~repeats \/ since > RepeatLimit THEN None ELSE v

\* ArrayDeque<_, 3, Wrapping>::push_back: a full deque drops its front
Past_push_back(past, e) ==
    IF Len(past) = PastCap THEN Append(Tail(past), e) ELSE Append(past, e)

\* variant of add that checks only the tick argument, not the last queued
\* tick
IQ_add_FromTick(q, tick, hist) ==
    IF hist.updated_at < tick THEN q
    ELSE LET first_tick == IH_first_tick(hist)
             offset == SatSub(tick, first_tick)
             remaining_capacity == QueueCap - Len(q.queue)
             last == Min2(Len(hist.list), offset + remaining_capacity)
         IN [q EXCEPT !.queue =
                 @ \o [j \in 1..(last - offset) |->
                          [tick |-> first_tick + (offset + j - 1),
                           v |-> hist.list[offset + j]]]]

IQ_add(q, tick, hist) ==
    LET newest_missing ==
            Max2(tick, IF q.queue = <<>> THEN 0
                       ELSE q.queue[Len(q.queue)].tick + 1)
    IN IF hist.updated_at < newest_missing THEN q
       ELSE LET first_tick == IH_first_tick(hist)
                offset == SatSub(newest_missing, first_tick)
                remaining_capacity == QueueCap - Len(q.queue)
                \* enumerate().skip(offset).take(remaining_capacity)
                last == Min2(Len(hist.list), offset + remaining_capacity)
            IN [q EXCEPT !.queue =
                    @ \o [j \in 1..(last - offset) |->
                             [tick |-> first_tick + (offset + j - 1),
                              v |-> hist.list[offset + j]]]]

\* `while !queue.is_empty() && queue[0].0 < tick { newest_miss = pop_front() }`
RECURSIVE IQ_pop_missed(_, _, _)
IQ_pop_missed(queue, tick, newest_miss) ==
    IF queue # <<>> /\ queue[1].tick < tick
    THEN IQ_pop_missed(Tail(queue), tick, queue[1])
    ELSE [queue |-> queue, newest_miss |-> newest_miss]

NoEntry == [tick |-> None, v |-> None]

\* next: the queue afterwards and the returned Option
IQ_next(q, tick) ==
    LET p == IQ_pop_missed(q.queue, tick, NoEntry)
        q1 == [q EXCEPT !.queue = p.queue]
    IN IF p.queue = <<>> \/ p.queue[1].tick # tick
       THEN LET input == IF p.newest_miss = NoEntry THEN None
                         ELSE IT_repeated(q.repeats, p.newest_miss.v,
                                          TickSince(tick, p.newest_miss.tick))
            IN IF input # None
               THEN [q |-> [q1 EXCEPT !.past =
                               Past_push_back(@, [tick |-> tick, v |-> input,
                                                  orig |-> p.newest_miss.tick])],
                     ret |-> input]
               ELSE [q |-> q1,
                     ret |-> IF q1.past = <<>> THEN None
                             ELSE LET back == q1.past[Len(q1.past)]
                                  IN IT_repeated(q.repeats, back.v,
                                                 TickSince(tick, back.tick))]
       ELSE [q |-> [q1 EXCEPT !.queue = Tail(p.queue),
                              !.past = Past_push_back(@,
                                  [tick |-> p.queue[1].tick, v |-> p.queue[1].v,
                                   orig |-> p.queue[1].tick])],
             ret |-> p.queue[1].v]

\* ------------------------------------------------------------------------
\* State
\*   h     : the ComponentHistory
\*   alive : FALSE once the history has been dropped
\*   pre   : the history as it was when the last operation began
\*   op    : the last operation, with its arguments
\*   asked : per tick, what the caller last asked for while requests are
\*           recorded: 0 nothing, a value for write, AskedRemoved for
\*           mark_removed
\*   incr  : every recorded request targeted a tick above all earlier ones
\*   once  : no tick was targeted by two recorded requests
\*   steps : the number of operations performed so far
\*   dq    : a BlobDeque used on its own
\*   dqpre : that deque as it was when the last operation on it began
\*   dqop  : the last operation on it, with its arguments and its result
\*   dqlog : the values appended to it since it was last empty, while every
\*           call since then was an append; empty otherwise
\*   auth  : the authoritative history of the component whose predicted
\*           history is h, and whether it exists
\*   ld    : the last load pass over the component: its inputs and what it
\*           queued for the component
\*   rb    : the resources and the position of trigger_rollback, with the
\*           schedules run so far
\*   sp    : a SparseBlobDeque used on its own
\*   sppre : that deque as it was when the last operation on it began
\*   spop  : the last operation on it, with its arguments
\*   ih    : an InputHistory
\*   ihpre : that history as it was when the last operation on it began
\*   ihop  : the last operation on it, with its arguments
\*   iq    : an InputQueue
\*   iqpre : that queue as it was when the last operation on it began
\*   iqop  : the last operation on it, with its arguments and its result
\* ------------------------------------------------------------------------
VARIABLES h, alive, pre, op, asked, incr, once, steps, dq, dqpre, dqop,
          dqlog, auth, ld, rb, sp, sppre, spop, ih, ihpre, ihop, iq, iqpre,
          iqop

vars == <<h, alive, pre, op, asked, incr, once, steps, dq, dqpre, dqop,
          dqlog, auth, ld, rb, sp, sppre, spop, ih, ihpre, ihop, iq, iqpre,
          iqop>>

historyVars == <<h, alive, pre, op, asked, incr, once>>
dequeVars == <<dq, dqpre, dqop, dqlog>>
loadVars == <<auth, ld>>
sparseVars == <<sp, sppre, spop>>
inputHistoryVars == <<ih, ihpre, ihop>>
queueVars == <<iq, iqpre, iqop>>
inputVars == <<inputHistoryVars, queueVars>>

AskedRemoved == -2

\* an operation starts with empty records of the calls it makes
Begin(x) == [x EXCEPT !.list.items.dropped = <<>>, !.list.items.inited = <<>>]

NoOp == [kind |-> "new", tick |-> 0, v |-> 0]

NoDequeOp == [kind |-> "new", arg |-> 0, v |-> 0, ok |-> TRUE]

NoSparseOp == [kind |-> "new", arg |-> 0, write |-> FALSE, v |-> 0]

NoInputOp == [kind |-> "new", tick |-> 0, v |-> 0, hist |-> IH_default,
              ret |-> None]

\* no authoritative history for the component
NoAuth(size) == [exists |-> FALSE, hist |-> CH_new(size)]

NoLoad == [p |-> 0, entity_auth |-> FALSE, confirmed |-> {}, global |-> {},
           queued |-> "none", v |-> 0]

\* trigger_rollback not running, no rollback requested
NoRollback == [pc |-> "idle", target |-> None, frames |-> 0, requested |-> 0,
               real_tick |-> 0, start |-> 0, tick |-> 0, load_from |-> None,
               i |-> 0, already_loaded |-> FALSE, ran |-> <<>>]

Init ==
    /\ \E size \in Caps : h = CH_new(size)
    /\ alive = TRUE
    /\ pre = h
    /\ op = NoOp
    /\ asked = [t \in Ticks |-> 0]
    /\ incr = TRUE
    /\ once = TRUE
    /\ steps = 0
    /\ dq = BD_new(ItemsInitCap)
    /\ dqpre = dq
    /\ dqop = NoDequeOp
    /\ dqlog = <<>>
    /\ sp = SBD_new(MinCap)
    /\ sppre = sp
    /\ spop = NoSparseOp
    /\ ih = IH_default
    /\ ihpre = ih
    /\ ihop = NoInputOp
    /\ iq = IQ_default(TRUE)
    /\ iqpre = iq
    /\ iqop = NoInputOp
    /\ auth = NoAuth(MinCap)
    /\ ld = NoLoad
    /\ rb = NoRollback

Usable == alive /\ ~h.list.items.panic

DoWrite(tick, v) ==
    /\ Usable
    /\ h' = CH_write(Begin(h), tick, v)
    /\ pre' = Begin(h)
    /\ steps' = steps + 1
    /\ op' = [kind |-> "write", tick |-> tick, v |-> v]
    /\ alive' = alive
    /\ UNCHANGED <<dequeVars, sparseVars, inputVars, loadVars, rb>>

DoMarkRemoved(tick) ==
    /\ Usable
    /\ h' = CH_mark_removed(Begin(h), tick)
    /\ pre' = Begin(h)
    /\ steps' = steps + 1
    /\ op' = [kind |-> "mark_removed", tick |-> tick, v |-> 0]
    /\ alive' = alive
    /\ UNCHANGED <<dequeVars, sparseVars, inputVars, loadVars, rb>>

Record(tick, what) ==
    /\ asked' = [asked EXCEPT ![tick] = what]
    /\ incr' = (incr /\ \A t \in Ticks : asked[t] # 0 => t < tick)
    /\ once' = (once /\ asked[tick] = 0)

Write(tick, v) ==
    steps < MaxOps /\ DoWrite(tick, v) /\ UNCHANGED <<asked, incr, once>>

MarkRemoved(tick) ==
    steps < MaxOps /\ DoMarkRemoved(tick) /\ UNCHANGED <<asked, incr, once>>

Clean(retain_until) ==
    /\ Usable /\ steps < MaxOps
    /\ h' = CH_clean(Begin(h), retain_until)
    /\ pre' = Begin(h)
    /\ steps' = steps + 1
    /\ op' = [kind |-> "clean", tick |-> retain_until, v |-> 0]
    /\ UNCHANGED <<alive, asked, incr, once>>
    /\ UNCHANGED <<dequeVars, sparseVars, inputVars, loadVars, rb>>

KeepFirstItem ==
    /\ Usable /\ steps < MaxOps
    /\ h' = CH_keep_first_item(Begin(h))
    /\ pre' = Begin(h)
    /\ steps' = steps + 1
    /\ op' = [kind |-> "keep_first_item", tick |-> 0, v |-> 0]
    /\ UNCHANGED <<alive, asked, incr, once>>
    /\ UNCHANGED <<dequeVars, sparseVars, inputVars, loadVars, rb>>

DropHistory ==
    /\ Usable /\ steps < MaxOps
    /\ h' = CH_drop(Begin(h))
    /\ pre' = Begin(h)
    /\ steps' = steps + 1
    /\ op' = [kind |-> "drop", tick |-> 0, v |-> 0]
    /\ alive' = FALSE
    /\ UNCHANGED <<asked, incr, once>>
    /\ UNCHANGED <<dequeVars, sparseVars, inputVars, loadVars, rb>>

RecordedWrite(tick, v) ==
    steps < MaxRecorded /\ DoWrite(tick, v) /\ Record(tick, v)

RecordedMarkRemoved(tick) ==
    steps < MaxRecorded /\ DoMarkRemoved(tick) /\ Record(tick, AskedRemoved)

\* any sequence of operations on a history
Next ==
    \/ \E tick \in Ticks, v \in Values : Write(tick, v)
    \/ \E tick \in Ticks : MarkRemoved(tick)
    \/ \E tick \in Ticks : Clean(tick)
    \/ KeepFirstItem
    \/ DropHistory

Spec == Init /\ [][Next]_vars

\* writes and removals on a fresh history, with the requests recorded
NextRecorded ==
    \/ \E tick \in Ticks, v \in Values : RecordedWrite(tick, v)
    \/ \E tick \in Ticks : RecordedMarkRemoved(tick)

SpecRecorded == Init /\ [][NextRecorded]_vars

TypeOK ==
    /\ h.list.capacity \in Caps
    /\ h.last_tick \in Ticks
    /\ h.list.mask \subseteq AllBits
    /\ h.removed_mask \subseteq AllBits

\* ------------------------------------------------------------------------
\* A BlobDeque used on its own, through its crate-public operations
\* ------------------------------------------------------------------------
DequeCaps == 1..MaxDequeCap

\* an operation starts with empty records of the calls it makes
BeginDeque(x) == [x EXCEPT !.dropped = <<>>, !.inited = <<>>]

InitDeque ==
    /\ \E size \in DequeCaps : dq = BD_new(size)
    /\ dqpre = dq
    /\ dqop = NoDequeOp
    /\ dqlog = <<>>
    /\ sp = SBD_new(MinCap)
    /\ sppre = sp
    /\ spop = NoSparseOp
    /\ ih = IH_default
    /\ ihpre = ih
    /\ ihop = NoInputOp
    /\ iq = IQ_default(TRUE)
    /\ iqpre = iq
    /\ iqop = NoInputOp
    /\ h = CH_new(MinCap)
    /\ alive = TRUE
    /\ pre = h
    /\ op = NoOp
    /\ asked = [t \in Ticks |-> 0]
    /\ incr = TRUE
    /\ once = TRUE
    /\ steps = 0
    /\ auth = NoAuth(MinCap)
    /\ ld = NoLoad
    /\ rb = NoRollback

DequeStep(kind, arg, v, ok, after) ==
    /\ steps < MaxDequeOps
    /\ dq' = after
    /\ dqpre' = BeginDeque(dq)
    /\ dqop' = [kind |-> kind, arg |-> arg, v |-> v, ok |-> ok]
    /\ dqlog' = IF kind # "append" THEN <<>>
                ELSE IF dq.len = 0 THEN <<v>>
                ELSE IF dqlog = <<>> THEN <<>>
                ELSE Append(dqlog, v)
    /\ steps' = steps + 1
    /\ UNCHANGED <<historyVars, loadVars, rb, sparseVars, inputVars>>

DequeAppend(v) ==
    DequeStep("append", 0, v, TRUE, BD_append(BeginDeque(dq), v))

DequeInsert(at, v) ==
    LET r == BD_insert(BeginDeque(dq), at, v)
    IN DequeStep("insert", at, v, r.ok, r.d)

DequeDropFront ==
    DequeStep("drop_front", 0, 0, TRUE, BD_drop_front(BeginDeque(dq)))

DequeDropBack ==
    DequeStep("drop_back", 0, 0, TRUE, BD_drop_back(BeginDeque(dq)))

DequeResize(capacity) ==
    DequeStep("resize", capacity, 0, TRUE, BD_resize(BeginDeque(dq), capacity))

DequeClear ==
    DequeStep("clear", 0, 0, TRUE, BD_clear(BeginDeque(dq)))

NextDeque ==
    \/ \E v \in Values : DequeAppend(v)
    \/ \E at \in 0..(MaxDequeCap + 1), v \in Values : DequeInsert(at, v)
    \/ DequeDropFront
    \/ DequeDropBack
    \/ \E capacity \in DequeCaps : DequeResize(capacity)
    \/ DequeClear

SpecDeque == InitDeque /\ [][NextDeque]_vars

\* the items a deque owns, oldest first
Items(x) == [i \in 1..x.len |-> BD_get(x, i - 1)]

\* ------------------------------------------------------------------------
\* The load pass of a rollback (load_and_clear_prediction), for one component
\* of one predicted entity: h is the component's predicted history
\* ------------------------------------------------------------------------
LoadTicks == 0..MaxLoadTick

\* the confirmed ticks a load pass may find, per entity or globally: none, or
\* a single tick
ConfirmSets == {{}} \cup {{t} : t \in 0..(MaxLoadTick + 1)}

\* the value the server sent and the value the client predicted
AuthoritativeValue == SetMin(Values)
PredictedValue == SetMax(Values)

\* ConfirmHistory::contains_any / ServerMutateTicks::contains_any
ContainsAny(confirmed, start_tick, end_tick) ==
    \E t \in confirmed : start_tick <= t /\ t <= end_tick

\* TickData::value
ValueOf(x) == IF x.tag = "Value" THEN x.v ELSE None

\* variant of the `auth` computation that reads the authoritative history
\* whether or not a tick in range is confirmed
LoadAuth_NoConfirmCheck(a, entity_auth, confirmed, global, previous_tick) ==
    IF entity_auth /\ a.exists
    THEN CH_get_latest(a.hist, previous_tick)
    ELSE Missing

\* the `auth` the load pass computes; entity_auth: the entity has an
\* AuthoritativeHistory and a ConfirmHistory
LoadAuth(a, entity_auth, confirmed, global, previous_tick) ==
    IF entity_auth /\ a.exists
    THEN LET check_range == CH_empty_after(a.hist, previous_tick)
             end_tick == previous_tick + check_range
         IN IF ContainsAny(confirmed, previous_tick, end_tick)
                  \/ ContainsAny(global, previous_tick, end_tick)
            THEN CH_get_latest(a.hist, previous_tick)
            ELSE Missing
    ELSE Missing

\* the load function of HistoryComponent::new: auth.or(pred).unwrap()
DefaultLoad(authoritative, predicted) ==
    IF authoritative # None THEN authoritative ELSE predicted

\* one iteration of the loop over the entity's predicted components: what is
\* queued for the component, and the predicted history afterwards
LoadComponent(pred_hist, a, entity_auth, confirmed, global, previous_tick) ==
    LET authd == LoadAuth(a, entity_auth, confirmed, global, previous_tick)
        predd == CH_get_latest(pred_hist, previous_tick)
    IN IF authd = Removed \/ (authd = Missing /\ predd = Removed)
       THEN [queued |-> "remove", v |-> 0,
             hist |-> CH_clean(pred_hist, previous_tick)]
       ELSE IF authd = Missing /\ predd = Missing
       THEN [queued |-> "remove", v |-> 0,
             hist |-> CH_keep_first_item(pred_hist)]
       ELSE [queued |-> "insert",
             v |-> DefaultLoad(ValueOf(authd), ValueOf(predd)),
             hist |-> CH_clean(pred_hist, previous_tick)]

InitLoad ==
    /\ h = CH_new(MaxCap)
    /\ auth = NoAuth(MaxCap)
    /\ alive = TRUE
    /\ pre = h
    /\ op = NoOp
    /\ asked = [t \in Ticks |-> 0]
    /\ incr = TRUE
    /\ once = TRUE
    /\ steps = 0
    /\ dq = BD_new(ItemsInitCap)
    /\ dqpre = dq
    /\ dqop = NoDequeOp
    /\ dqlog = <<>>
    /\ sp = SBD_new(MinCap)
    /\ sppre = sp
    /\ spop = NoSparseOp
    /\ ih = IH_default
    /\ ihpre = ih
    /\ ihop = NoInputOp
    /\ iq = IQ_default(TRUE)
    /\ iqpre = iq
    /\ iqop = NoInputOp
    /\ ld = NoLoad
    /\ rb = NoRollback

PredictedWrite(tick, v) ==
    steps < MaxLoadOps /\ DoWrite(tick, v) /\ UNCHANGED <<asked, incr, once>>

PredictedMarkRemoved(tick) ==
    steps < MaxLoadOps /\ DoMarkRemoved(tick) /\ UNCHANGED <<asked, incr, once>>

AuthoritativeWrite(tick, v) ==
    /\ steps < MaxLoadOps
    /\ auth' = [exists |-> TRUE, hist |-> CH_write(Begin(auth.hist), tick, v)]
    /\ op' = [kind |-> "auth_write", tick |-> tick, v |-> v]
    /\ steps' = steps + 1
    /\ UNCHANGED <<h, alive, pre, asked, incr, once, dequeVars, sparseVars, inputVars, ld, rb>>

\* remove_history_internal returns early when the component has no
\* authoritative history yet
AuthoritativeMarkRemoved(tick) ==
    /\ steps < MaxLoadOps
    /\ auth.exists
    /\ auth' = [auth EXCEPT !.hist = CH_mark_removed(Begin(auth.hist), tick)]
    /\ op' = [kind |-> "auth_mark_removed", tick |-> tick, v |-> 0]
    /\ steps' = steps + 1
    /\ UNCHANGED <<h, alive, pre, asked, incr, once, dequeVars, sparseVars, inputVars, ld, rb>>

Load(previous_tick, entity_auth, confirmed, global) ==
    /\ Usable /\ steps < MaxLoadOps
    /\ \E r \in {LoadComponent(Begin(h), auth, entity_auth, confirmed, global,
                               previous_tick)} :
          /\ h' = r.hist
          /\ ld' = [p |-> previous_tick, entity_auth |-> entity_auth,
                    confirmed |-> confirmed, global |-> global,
                    queued |-> r.queued, v |-> r.v]
    /\ pre' = Begin(h)
    /\ op' = [kind |-> "load", tick |-> previous_tick, v |-> 0]
    /\ steps' = steps + 1
    /\ UNCHANGED <<alive, asked, incr, once, dequeVars, sparseVars, inputVars, auth, rb>>

NextLoad ==
    \/ \E tick \in LoadTicks : PredictedWrite(tick, PredictedValue)
    \/ \E tick \in LoadTicks : PredictedMarkRemoved(tick)
    \/ \E tick \in LoadTicks : AuthoritativeWrite(tick, AuthoritativeValue)
    \/ \E tick \in LoadTicks : AuthoritativeMarkRemoved(tick)
    \/ \E p \in LoadTicks, entity_auth \in BOOLEAN,
          found \in ConfirmSets, by_entity \in BOOLEAN :
            Load(p, entity_auth, IF by_entity THEN found ELSE {},
                 IF by_entity THEN {} ELSE found)

SpecLoad == InitLoad /\ [][NextLoad]_vars

\* ------------------------------------------------------------------------
\* One update of the rollback driver: calculate_rollback_target, then
\* trigger_rollback if a target is set
\* ------------------------------------------------------------------------
RollbackTicks == 0..MaxRollbackTick

\* RollbackFrames values
FrameCounts == 0..MaxFrames

\* tick.get().saturating_sub(frames.max_frames() as u32 - 2): without
\* overflow checks, fewer than 2 frames wrap the subtrahend to 2^32 - 2 or
\* 2^32 - 1, which is above every tick of RollbackTicks
MinTarget(tick, frames) == IF frames >= 2 THEN SatSub(tick, frames - 2) ELSE 0

\* the loop range start..=real_tick, as the exclusive range
InResimulation_Exclusive(i, real_tick) == i < real_tick

\* `for tick in start.get()..=real_tick.get()`: i is still in the range
InResimulation(i, real_tick) == i <= real_tick

\* LoadFrom(RepliconTick::new(tick.get().saturating_sub(1)))
LoadFromFor(tick) == SatSub(tick, 1)

\* what a system of the schedule sees when the schedule runs
Ran(schedule, r) ==
    [schedule |-> schedule, tick |-> r.tick, load_from |-> r.load_from,
     already_loaded |-> r.already_loaded]

\* RollbackLoadSet.run_if(not(resource_exists::<AlreadyLoaded>)): whether the
\* systems of RollbackLoadSet run in a recorded run of PreResimulation
RollbackLoadSetRuns(ran) == ~ran.already_loaded

InitRollback ==
    /\ \E tick \in RollbackTicks, target \in {None} \cup RollbackTicks,
          frames \in FrameCounts :
            rb = [NoRollback EXCEPT !.tick = tick, !.target = target,
                                    !.frames = frames]
    /\ h = CH_new(MinCap)
    /\ alive = TRUE
    /\ pre = h
    /\ op = NoOp
    /\ asked = [t \in Ticks |-> 0]
    /\ incr = TRUE
    /\ once = TRUE
    /\ steps = 0
    /\ dq = BD_new(ItemsInitCap)
    /\ dqpre = dq
    /\ dqop = NoDequeOp
    /\ dqlog = <<>>
    /\ sp = SBD_new(MinCap)
    /\ sppre = sp
    /\ spop = NoSparseOp
    /\ ih = IH_default
    /\ ihpre = ih
    /\ ihop = NoInputOp
    /\ iq = IQ_default(TRUE)
    /\ iqpre = iq
    /\ iqop = NoInputOp
    /\ auth = NoAuth(MinCap)
    /\ ld = NoLoad

RollbackStep(next) ==
    /\ rb' = next
    /\ UNCHANGED <<historyVars, steps, dequeVars, sparseVars, inputVars, loadVars>>

\* events: the ticks of the EntityReplicated and MutateTickReceived events
\* read; overflow_checks: the build panics on integer overflow
CalculateRollbackTarget(events, overflow_checks) ==
    /\ rb.pc = "idle"
    /\ LET tick == rb.tick
           seen == events \cup (IF rb.target = None THEN {} ELSE {rb.target})
           rollback_target == IF seen = {} THEN None ELSE SetMin(seen)
           min == MinTarget(tick, rb.frames)
           target == Max2(IF rollback_target = None THEN tick
                          ELSE rollback_target, min)
       IN IF rb.frames < 2 /\ overflow_checks
          THEN RollbackStep([rb EXCEPT !.pc = "panicked",
                                       !.target = rollback_target])
          ELSE RollbackStep([rb EXCEPT
                   !.pc = "calculated",
                   !.requested = tick - target,
                   !.target = IF target = tick THEN rollback_target
                              ELSE target])

\* trigger_rollback up to and including run_schedule(PreRollback); it runs
\* only if rollback_requested
RunPreRollback ==
    /\ rb.pc = "calculated"
    /\ rb.target # None
    /\ LET r == [rb EXCEPT !.target = None, !.real_tick = rb.tick,
                           !.start = rb.target]
       IN RollbackStep([r EXCEPT !.pc = "rollback",
                                 !.ran = Append(rb.ran, Ran("PreRollback", r))])

RunRollback ==
    /\ rb.pc = "rollback"
    /\ LET r == [rb EXCEPT !.load_from = LoadFromFor(rb.start),
                           !.tick = rb.start]
       IN RollbackStep([r EXCEPT !.pc = "post_rollback",
                                 !.ran = Append(rb.ran, Ran("Rollback", r))])

\* run_schedule(PostRollback), insert AlreadyLoaded and enter the loop
RunPostRollback ==
    /\ rb.pc = "post_rollback"
    /\ RollbackStep([rb EXCEPT
           !.pc = IF InResimulation(rb.start, rb.real_tick)
                  THEN "pre_resimulation" ELSE "back_to_present",
           !.already_loaded = TRUE,
           !.i = rb.start,
           !.ran = Append(rb.ran, Ran("PostRollback", rb))])

RunPreResimulation ==
    /\ rb.pc = "pre_resimulation"
    /\ LET r == [rb EXCEPT !.load_from = LoadFromFor(rb.i), !.tick = rb.i]
       IN RollbackStep([r EXCEPT
              !.pc = "simulation",
              !.already_loaded = FALSE,
              !.ran = Append(rb.ran, Ran("PreResimulation", r))])

RunSimulation ==
    /\ rb.pc = "simulation"
    /\ RollbackStep([rb EXCEPT !.pc = "post_resimulation",
                               !.ran = Append(rb.ran, Ran("Simulation", rb))])

\* run_schedule(PostResimulation) and the step of the loop
RunPostResimulation ==
    /\ rb.pc = "post_resimulation"
    /\ RollbackStep([rb EXCEPT
           !.pc = IF InResimulation(rb.i + 1, rb.real_tick)
                  THEN "pre_resimulation" ELSE "back_to_present",
           !.i = rb.i + 1,
           !.ran = Append(rb.ran, Ran("PostResimulation", rb))])

RunBackToPresent ==
    /\ rb.pc = "back_to_present"
    /\ RollbackStep([rb EXCEPT !.pc = "done",
                               !.ran = Append(rb.ran, Ran("BackToPresent", rb))])

NextRollback ==
    \/ \E events \in {{}} \cup {{t} : t \in RollbackTicks},
          overflow_checks \in BOOLEAN :
            CalculateRollbackTarget(events, overflow_checks)
    \/ RunPreRollback
    \/ RunRollback
    \/ RunPostRollback
    \/ RunPreResimulation
    \/ RunSimulation
    \/ RunPostResimulation
    \/ RunBackToPresent

SpecRollback == InitRollback /\ [][NextRollback]_vars

\* ------------------------------------------------------------------------
\* A SparseBlobDeque used on its own, through its operations
\* ------------------------------------------------------------------------
SparseCaps == 1..MaxSparseCap

\* an operation starts with empty records of the calls it makes
BeginSparse(x) == [x EXCEPT !.items.dropped = <<>>, !.items.inited = <<>>]

InitSparse ==
    /\ \E cap \in SparseCaps : sp = SBD_new(cap)
    /\ sppre = sp
    /\ spop = NoSparseOp
    /\ ih = IH_default
    /\ ihpre = ih
    /\ ihop = NoInputOp
    /\ iq = IQ_default(TRUE)
    /\ iqpre = iq
    /\ iqop = NoInputOp
    /\ h = CH_new(MinCap)
    /\ alive = TRUE
    /\ pre = h
    /\ op = NoOp
    /\ asked = [t \in Ticks |-> 0]
    /\ incr = TRUE
    /\ once = TRUE
    /\ steps = 0
    /\ dq = BD_new(ItemsInitCap)
    /\ dqpre = dq
    /\ dqop = NoDequeOp
    /\ dqlog = <<>>
    /\ auth = NoAuth(MinCap)
    /\ ld = NoLoad
    /\ rb = NoRollback

SparseStep(kind, arg, write, v, after) ==
    /\ steps < MaxSparseOps
    /\ ~sp.items.panic
    /\ sp' = after
    /\ sppre' = BeginSparse(sp)
    /\ spop' = [kind |-> kind, arg |-> arg, write |-> write, v |-> v]
    /\ steps' = steps + 1
    /\ UNCHANGED <<historyVars, dequeVars, loadVars, rb, inputVars>>

\* append(Some(write_fn)) with an initializer that stores v
SparseAppendSome(v) ==
    SparseStep("append", 0, TRUE, v, SBD_append(BeginSparse(sp), TRUE, v))

\* append(None)
SparseAppendNone ==
    SparseStep("append", 0, FALSE, 0, SBD_append(BeginSparse(sp), FALSE, 0))

SparseExtendFront(n) ==
    SparseStep("extend_front", n, FALSE, 0, SBD_extend_front(BeginSparse(sp), n))

SparseExtendBack(n) ==
    SparseStep("extend_back", n, FALSE, 0, SBD_extend_back(BeginSparse(sp), n))

SparseTrimBack(n) ==
    SparseStep("trim_back", n, FALSE, 0, SBD_trim_back(BeginSparse(sp), n))

SparseClear ==
    SparseStep("clear", 0, FALSE, 0, SBD_clear(BeginSparse(sp)))

SparseReplace(index, v) ==
    SparseStep("replace", index, TRUE, v, SBD_replace(BeginSparse(sp), index, v))

NextSparse ==
    \/ \E v \in Values : SparseAppendSome(v)
    \/ SparseAppendNone
    \/ \E n \in 0..(MaxSparseCap + 1) : SparseExtendFront(n)
    \/ \E n \in 0..(MaxSparseCap + 1) : SparseExtendBack(n)
    \/ \E n \in 0..(MaxSparseCap + 1) : SparseTrimBack(n)
    \/ SparseClear
    \/ \E index \in 0..MaxSparseCap, v \in Values : SparseReplace(index, v)

SpecSparse == InitSparse /\ [][NextSparse]_vars

\* ------------------------------------------------------------------------
\* Histories of every capacity SparseBlobDeque::new accepts, from 1 up, with
\* both ways a build treats an out-of-range subtraction:
\*   overflow_checks : the build panics on integer overflow; without them
\*                     the value wraps
\* ------------------------------------------------------------------------
NumericCaps == 1..MaxNumericCap

InitNumeric ==
    /\ \E size \in NumericCaps : h = CH_new(size)
    /\ alive = TRUE
    /\ pre = h
    /\ op = NoOp
    /\ asked = [t \in Ticks |-> 0]
    /\ incr = TRUE
    /\ once = TRUE
    /\ steps = 0
    /\ dq = BD_new(ItemsInitCap)
    /\ dqpre = dq
    /\ dqop = NoDequeOp
    /\ dqlog = <<>>
    /\ sp = SBD_new(MinCap)
    /\ sppre = sp
    /\ spop = NoSparseOp
    /\ ih = IH_default
    /\ ihpre = ih
    /\ ihop = NoInputOp
    /\ iq = IQ_default(TRUE)
    /\ iqpre = iq
    /\ iqop = NoInputOp
    /\ auth = NoAuth(MinCap)
    /\ ld = NoLoad
    /\ rb = NoRollback

\* the history after a panic inside one of its operations
Panicked(x) == [x EXCEPT !.list.items.panic = TRUE]

NumericStep(kind, tick, v, in_range, after, overflow_checks) ==
    /\ Usable /\ steps < MaxNumericOps
    /\ h' = IF overflow_checks /\ ~in_range THEN Panicked(Begin(h)) ELSE after
    /\ pre' = Begin(h)
    /\ steps' = steps + 1
    /\ op' = [kind |-> kind, tick |-> tick, v |-> v]
    /\ UNCHANGED <<alive, asked, incr, once>>
    /\ UNCHANGED <<dequeVars, sparseVars, inputVars, loadVars, rb>>

NumericWrite(tick, v, overflow_checks) ==
    NumericStep("write", tick, v, CH_write_InRange(Begin(h), tick),
                CH_write(Begin(h), tick, v), overflow_checks)

NumericMarkRemoved(tick, overflow_checks) ==
    NumericStep("mark_removed", tick, 0, CH_mark_removed_InRange(Begin(h), tick),
                CH_mark_removed(Begin(h), tick), overflow_checks)

NumericClean(retain_until) ==
    NumericStep("clean", retain_until, 0, TRUE,
                CH_clean(Begin(h), retain_until), FALSE)

NumericKeepFirstItem ==
    NumericStep("keep_first_item", 0, 0, TRUE, CH_keep_first_item(Begin(h)), FALSE)

NextNumeric ==
    \/ \E tick \in Ticks, v \in Values, overflow_checks \in BOOLEAN :
           NumericWrite(tick, v, overflow_checks)
    \/ \E tick \in Ticks, overflow_checks \in BOOLEAN :
           NumericMarkRemoved(tick, overflow_checks)
    \/ \E tick \in Ticks : NumericClean(tick)
    \/ NumericKeepFirstItem

SpecNumeric == InitNumeric /\ [][NextNumeric]_vars

\* ------------------------------------------------------------------------
\* An InputHistory written by its owner
\* ------------------------------------------------------------------------
InitInputHistory ==
    /\ ih = IH_default
    /\ ihpre = ih
    /\ ihop = NoInputOp
    /\ iq = IQ_default(TRUE)
    /\ iqpre = iq
    /\ iqop = NoInputOp
    /\ h = CH_new(MinCap)
    /\ alive = TRUE
    /\ pre = h
    /\ op = NoOp
    /\ asked = [t \in Ticks |-> 0]
    /\ incr = TRUE
    /\ once = TRUE
    /\ steps = 0
    /\ dq = BD_new(ItemsInitCap)
    /\ dqpre = dq
    /\ dqop = NoDequeOp
    /\ dqlog = <<>>
    /\ sp = SBD_new(MinCap)
    /\ sppre = sp
    /\ spop = NoSparseOp
    /\ auth = NoAuth(MinCap)
    /\ ld = NoLoad
    /\ rb = NoRollback

InputHistoryWrite(tick, value) ==
    /\ steps < MaxInputOps
    /\ ih' = IH_write(ih, tick, value)
    /\ ihpre' = ih
    /\ ihop' = [NoInputOp EXCEPT !.kind = "write", !.tick = tick, !.v = value]
    /\ steps' = steps + 1
    /\ UNCHANGED <<historyVars, dequeVars, sparseVars, loadVars, rb, queueVars>>

InputHistoryReset ==
    /\ steps < MaxInputOps
    /\ ih' = IH_reset(ih)
    /\ ihpre' = ih
    /\ ihop' = [NoInputOp EXCEPT !.kind = "reset"]
    /\ steps' = steps + 1
    /\ UNCHANGED <<historyVars, dequeVars, sparseVars, loadVars, rb, queueVars>>

NextInputHistory ==
    \/ \E tick \in 0..MaxInputTick, value \in {DefaultInput} \cup Values :
           InputHistoryWrite(tick, value)
    \/ InputHistoryReset

SpecInputHistory == InitInputHistory /\ [][NextInputHistory]_vars

\* ------------------------------------------------------------------------
\* An InputQueue fed with received histories and drained tick by tick
\* ------------------------------------------------------------------------
\* a received history: `len` inputs starting at tick `first`, the input for
\* tick t being (t % MaxVal) + 1
Received(first, len) ==
    LET RECURSIVE inputs(_)
        inputs(n) == IF n = 0 THEN <<>>
                     ELSE Append(inputs(n - 1), ((first + n - 1) % MaxVal) + 1)
    IN [list |-> inputs(len), capacity |-> len, updated_at |-> first + len - 1]

InitQueue ==
    /\ \E repeats \in BOOLEAN : iq = IQ_default(repeats)
    /\ iqpre = iq
    /\ iqop = NoInputOp
    /\ ih = IH_default
    /\ ihpre = ih
    /\ ihop = NoInputOp
    /\ h = CH_new(MinCap)
    /\ alive = TRUE
    /\ pre = h
    /\ op = NoOp
    /\ asked = [t \in Ticks |-> 0]
    /\ incr = TRUE
    /\ once = TRUE
    /\ steps = 0
    /\ dq = BD_new(ItemsInitCap)
    /\ dqpre = dq
    /\ dqop = NoDequeOp
    /\ dqlog = <<>>
    /\ sp = SBD_new(MinCap)
    /\ sppre = sp
    /\ spop = NoSparseOp
    /\ auth = NoAuth(MinCap)
    /\ ld = NoLoad
    /\ rb = NoRollback

QueueAdd(tick, hist) ==
    /\ steps < MaxQueueOps
    /\ iq' = IQ_add(iq, tick, hist)
    /\ iqpre' = iq
    /\ iqop' = [NoInputOp EXCEPT !.kind = "add", !.tick = tick, !.hist = hist]
    /\ steps' = steps + 1
    /\ UNCHANGED <<historyVars, dequeVars, sparseVars, loadVars, rb, inputHistoryVars>>

QueueNext(tick) ==
    /\ steps < MaxQueueOps
    /\ \E r \in {IQ_next(iq, tick)} :
          /\ iq' = r.q
          /\ iqop' = [NoInputOp EXCEPT !.kind = "next", !.tick = tick,
                                       !.ret = r.ret]
    /\ iqpre' = iq
    /\ steps' = steps + 1
    /\ UNCHANGED <<historyVars, dequeVars, sparseVars, loadVars, rb, inputHistoryVars>>

NextQueue ==
    \* histories of 1 or 2 inputs, and of more inputs than the queue holds
    \/ \E tick \in 0..MaxAddTick, first \in 0..MaxAddTick,
          len \in {1, 2, QueueCap + 2} :
           QueueAdd(tick, Received(first, len))
    \/ \E tick \in 0..MaxQueueTick : QueueNext(tick)

SpecQueue == InitQueue /\ [][NextQueue]_vars

\* the logical slots of a sparse deque, oldest first: a value or None
Slots(l) == [i \in 1..l.len |-> SBD_get(l, i - 1)]

\* ------------------------------------------------------------------------
\* Vocabulary of the properties
\* ------------------------------------------------------------------------
\* ticks a reader may ask about (one past the largest written tick included)
ReadTicks == 0..(MaxTick + 1)

\* the ticks of the tracked window [last_tick - len + 1, last_tick]
Window(x) == {t \in ReadTicks : t <= x.last_tick /\ x.last_tick - t < CH_len(x)}

\* the items the ring owns, oldest first
Live(x) == [i \in 1..x.list.items.len |-> BD_get(x.list.items, i - 1)]

Count(seq, v) == Cardinality({i \in DOMAIN seq : seq[i] = v})

\* the recorded requests
Touched == {t \in Ticks : asked[t] # 0}
Span == IF Touched = {} THEN 0 ELSE SetMax(Touched) - SetMin(Touched) + 1
OnlyWrites == \A t \in Ticks : asked[t] # AskedRemoved

\* what a reader sees of a history
View(x) == [len |-> CH_len(x), last_tick |-> x.last_tick,
            get |-> [t \in ReadTicks |-> CH_get(x, t)]]

\* ------------------------------------------------------------------------
\* Properties
\* ------------------------------------------------------------------------

\* C1: on a fresh history, after writes at strictly increasing ticks whose
\* span (last - first + 1) is at most the capacity, get returns Value(v) with
\* the written value at every written tick and Missing at every other tick
\* (before the span, inside it, or after the last written tick).
C1_RoundTrip ==
    (incr /\ OnlyWrites /\ Touched # {} /\ Span <= h.list.capacity)
        => \A t \in ReadTicks :
              CH_get(h, t) = IF t \in Touched THEN Value(asked[t]) ELSE Missing

\* three or more ticks of span, with an unwritten tick between two written ones
C1_Witness ==
    /\ incr /\ OnlyWrites /\ Span <= h.list.capacity
    /\ \E a, b, c \in Ticks :
          a < b /\ b < c /\ a \in Touched /\ b \notin Touched /\ c \in Touched
    /\ op.kind = "write"

C3_MasksDisjoint ==
    alive => h.list.mask \cap h.removed_mask = {}

\* C4: the number of set presence bits equals the number of items the ring
\* holds, every set bit lies inside the tracked window, and the item found
\* for bit k by counting the set bits at positions >= k is an item of the
\* ring (logical index popcount - 1, oldest first).
C4_MaskMatchesItems ==
    alive =>
        /\ CountOnes(h.list.mask) = SBD_stored_items(h.list)
        /\ \A k \in h.list.mask :
              /\ k < h.list.len
              /\ SBD_get(h.list, h.list.len - 1 - k)
                    = Live(h)[CountOnes({b \in h.list.mask : b >= k})]

\* a forward write has relocated an item: a presence bit of an older slot
\* sits where no shift of the old mask would have put it, and the item is
\* still the one the ring holds for it
C4_Witness ==
    /\ alive
    /\ op.kind = "write"
    /\ op.tick > pre.last_tick + 1
    /\ SBD_stored_items(h.list) = 2
    /\ \E k \in h.list.mask :
          /\ k > 0
          /\ (k - (op.tick - pre.last_tick)) \notin pre.list.mask
          /\ SBD_get(h.list, h.list.len - 1 - k) = Live(pre)[Len(Live(pre))]

\* C5: on a fresh history, after writes and mark_removed calls whose ticks
\* span at most the capacity, get returns Removed at every tick whose most
\* recent request was mark_removed and Missing at every tick no request
\* targeted.
C5_RemovedNotMissing ==
    (Touched # {} /\ Span <= h.list.capacity)
        => \A t \in ReadTicks :
              /\ (t \in Touched /\ asked[t] = AskedRemoved) => CH_get(h, t) = Removed
              /\ t \notin Touched => CH_get(h, t) = Missing

\* a value was written and then removed at one tick, out of tick order, and
\* an untouched tick lies between the touched ones
C5_Witness ==
    /\ Span <= h.list.capacity
    /\ ~once /\ ~incr
    /\ op.kind = "mark_removed"
    /\ CH_get(pre, op.tick).tag = "Value"
    /\ \E a, b, c \in Ticks :
          a < b /\ b < c /\ a \in Touched /\ b \notin Touched /\ c \in Touched

\* C6: write(t, v) at a tick t <= last_tick within capacity of the newest
\* tick overwrites whatever the slot held, so that get(t) = Value(v) right
\* after it.
C6_WriteOverwrites ==
    (/\ alive
     /\ op.kind = "write"
     /\ op.tick <= pre.last_tick
     /\ pre.last_tick - op.tick < pre.list.capacity)
        => CH_get(h, op.tick) = Value(op.v)

\* in-order replay of the recorded writes on a fresh history of the same size
RECURSIVE Replay(_, _)
Replay(x, t) ==
    IF t > MaxTick THEN x
    ELSE Replay(IF asked[t] \in Values THEN CH_write(x, t, asked[t]) ELSE x, t + 1)

InOrder == Replay(CH_new(h.list.capacity), 0)

\* C7: writing the same (tick, value) pairs, distinct ticks, in any order
\* gives the same len, last_tick and get(t) for every t as writing them in
\* increasing tick order.
C7_AnyOrder ==
    (once /\ OnlyWrites) => View(h) = View(InOrder)

\* C7 as amended: the same, for pairs whose ticks span at most the capacity.
C7_AnyOrderWithinCapacity ==
    (once /\ OnlyWrites /\ Span <= h.list.capacity) => View(h) = View(InOrder)

\* three values written newest first, so that each later write lands in
\* front of the tracked window
C7_Witness ==
    /\ once /\ OnlyWrites /\ ~incr
    /\ Span <= h.list.capacity
    /\ Cardinality(Touched) >= 3
    /\ op.kind = "write" /\ op.tick < pre.last_tick
    /\ CH_len(h) > CH_len(pre)
    /\ \E t \in Touched : asked[t] # asked[op.tick]

\* C8: after capacity + k writes (k >= 0) at consecutive increasing ticks on
\* a fresh history, get returns the written value at exactly the newest
\* `capacity` ticks and Missing at every other tick, and len = capacity.
C8_Wraparound ==
    (/\ incr /\ OnlyWrites /\ Touched # {}
     /\ Touched = SetMin(Touched)..SetMax(Touched)
     /\ Cardinality(Touched) >= h.list.capacity)
        => /\ CH_len(h) = h.list.capacity
           /\ \A t \in ReadTicks :
                 CH_get(h, t) =
                    IF t \in Touched /\ t > SetMax(Touched) - h.list.capacity
                    THEN Value(asked[t]) ELSE Missing

\* more values than the capacity were written, the oldest was evicted
C8_Witness ==
    /\ incr /\ OnlyWrites /\ Touched # {}
    /\ Touched = SetMin(Touched)..SetMax(Touched)
    /\ Cardinality(Touched) > h.list.capacity
    /\ Len(h.list.items.dropped) = 1

\* the ticks of a history that hold a fact (Value or Removed)
Facts(x) == {t \in Window(x) : CH_get(x, t) # Missing}

\* the last operation targeted a tick at least `capacity` ticks past the
\* tick after last_tick, on a history that held a fact
C9_Case ==
    /\ alive
    /\ op.kind \in {"write", "mark_removed"}
    /\ Facts(pre) # {}
    /\ op.tick - 1 - pre.last_tick >= pre.list.capacity

\* C9: a write or mark_removed at a tick n with n - 1 - last_tick >= capacity
\* on a history that holds a fact evicts everything but the newest prior
\* fact, which moves to tick n - (capacity - 1), the oldest slot of the new
\* window: get there returns that fact, every slot between it and n is
\* Missing, get_latest of every tick of the new window before n returns that
\* fact, and the ring holds no other old item.
C9_GapRelocation ==
    C9_Case =>
        LET n == op.tick
            r == n - (h.list.capacity - 1)
            fact == CH_get(pre, SetMax(Facts(pre)))
        IN /\ h.last_tick = n
           /\ CH_len(h) = h.list.capacity
           /\ CH_get(h, r) = fact
           /\ \A t \in (r + 1)..(n - 1) : CH_get(h, t) = Missing
           /\ \A t \in r..(n - 1) : CH_get_latest(h, t) = fact
           /\ Live(h) = (IF fact.tag = "Value" THEN <<fact.v>> ELSE <<>>)
                            \o (IF op.kind = "write" THEN <<op.v>> ELSE <<>>)

\* the fact the history holds for tick u of its window, read from the masks:
\* a removal bit wins over a presence bit at the same position
FactAt(x, u) ==
    LET k == x.last_tick - u
    IN IF k \in x.removed_mask THEN Removed
       ELSE IF k \in x.list.mask
       THEN Value(Live(x)[CountOnes({b \in x.list.mask : b >= k})])
       ELSE Missing

\* the nearest known fact at or before tick t, a tick past last_tick counting
\* as last_tick
NearestFact(x, t) ==
    LET te == Min2(t, x.last_tick)
        known == {u \in Window(x) : u <= te /\ FactAt(x, u) # Missing}
    IN IF te \notin Window(x) \/ known = {} THEN Missing
       ELSE FactAt(x, SetMax(known))

\* C10: get_latest(t) returns the nearest known fact at or before t: the
\* stored value or Removed, Removed winning at a shared position; Missing when
\* t is older than the window or the window holds no fact at or before t; a
\* tick past last_tick is treated as last_tick.
C10_GetLatestNearestFact ==
    alive => \A t \in ReadTicks : CH_get_latest(h, t) = NearestFact(h, t)

\* a window older than tick 0's, holding a removal, an empty slot after it
\* and a value at last_tick: the empty slot reads the removal, a tick past
\* last_tick reads the value, tick 0 is older than the window
C10_Witness ==
    /\ alive
    /\ 0 \notin Window(h)
    /\ \E t \in Window(h) :
          /\ FactAt(h, t) = Missing
          /\ CH_get_latest(h, t) = Removed
    /\ FactAt(h, h.last_tick).tag = "Value"
    /\ h.last_tick < MaxTick + 1
    /\ CH_get_latest(h, MaxTick + 1) = FactAt(h, h.last_tick)
    /\ CH_get_latest(h, 0) = Missing

\* the last call was a write or mark_removed on a non-empty history at a tick
\* at least `capacity` ticks older than last_tick
C11_Case ==
    /\ alive
    /\ op.kind \in {"write", "mark_removed"}
    /\ CH_len(pre) > 0
    /\ pre.last_tick - op.tick >= pre.list.capacity

\* C11: write and mark_removed at a tick with last_tick - t >= capacity on a
\* non-empty history are ignored: the initializer is not invoked, nothing is
\* dropped, no unwrap fails, and len, last_tick, both masks and the stored
\* values are what they were.
C11_TooOldIgnored ==
    C11_Case =>
        /\ h.list.items.inited = <<>>
        /\ h.list.items.dropped = <<>>
        /\ ~h.list.items.panic
        /\ h = pre

\* a write too old for a history that holds a value and a removal
C11_Witness ==
    /\ C11_Case
    /\ op.kind = "write"
    /\ SBD_stored_items(pre.list) > 0
    /\ pre.removed_mask # {}
    /\ CH_len(pre) < pre.list.capacity

\* Seq reversed
Reverse(seq) == [i \in 1..Len(seq) |-> seq[Len(seq) + 1 - i]]

\* the last call was clean(r) with r inside the tracked window
C12_Case ==
    /\ alive
    /\ op.kind = "clean"
    /\ pre.last_tick - CH_len(pre) < op.tick
    /\ op.tick < pre.last_tick

\* C12: clean(r) with last_tick - len < r < last_tick drops the slots of the
\* ticks newer than r, dropping each of their stored values once, sets
\* last_tick to r, shortens len by the number of dropped ticks and leaves
\* get(t) as it was for every t <= r; clean(r) with r >= last_tick changes
\* nothing.
C12_CleanInsideWindow ==
    /\ C12_Case =>
        LET to_drop == pre.last_tick - op.tick
        IN /\ h.last_tick = op.tick
           /\ CH_len(h) = CH_len(pre) - to_drop
           /\ \A t \in ReadTicks : t <= op.tick => CH_get(h, t) = CH_get(pre, t)
           /\ \A t \in ReadTicks : t > op.tick => CH_get(h, t) = Missing
           /\ Len(h.list.items.dropped)
                  = Cardinality({k \in pre.list.mask : k < to_drop})
           /\ Live(pre) = Live(h) \o Reverse(h.list.items.dropped)
           /\ h.list.items.inited = <<>>
    /\ (alive /\ op.kind = "clean" /\ op.tick >= pre.last_tick) => h = pre

\* a clean that drops a value and a removal and retains a value and a removal
C12_Witness ==
    /\ C12_Case
    /\ Len(h.list.items.dropped) >= 1
    /\ \E t \in Window(pre) : t > op.tick /\ CH_get(pre, t) = Removed
    /\ \E t \in Window(h) : CH_get(h, t) = Removed
    /\ \E t \in Window(h) : CH_get(h, t).tag = "Value"

\* the last call was clean(r) with r older than every tick of a non-empty
\* window
C13_Case ==
    /\ alive
    /\ op.kind = "clean"
    /\ CH_len(pre) > 0
    /\ pre.last_tick - op.tick >= CH_len(pre)

\* C13: clean(r) with last_tick - r >= len clears everything: len = 0, no
\* value is stored, removed_mask = 0 and last_tick = r.
C13_CleanClearsAll ==
    C13_Case =>
        /\ CH_len(h) = 0
        /\ SBD_stored_items(h.list) = 0
        /\ h.list.mask = {}
        /\ h.removed_mask = {}
        /\ h.last_tick = op.tick

\* C14: keep_first_item leaves a history that holds only its single oldest
\* known fact, a Value or a Removed marker, and no fact newer than it.
C14_KeepsOldestFact ==
    (alive /\ op.kind = "keep_first_item" /\ Facts(pre) # {}) =>
        /\ Facts(h) = {SetMin(Facts(pre))}
        /\ CH_get(h, SetMin(Facts(pre))) = CH_get(pre, SetMin(Facts(pre)))

\* C14 as amended: keep_first_item discards every tick newer than the oldest
\* stored value: last_tick becomes that value's tick, the newer values are
\* dropped once each, and every tick at or before it reads as before, Removed
\* markers older than the value included; a history that stores no value is
\* left as it was.
C14_KeepsOldestValue ==
    (alive /\ op.kind = "keep_first_item") =>
        IF SBD_stored_items(pre.list) = 0 THEN h = pre
        ELSE LET first_item == pre.last_tick - SetMax(pre.list.mask)
             IN /\ h.last_tick = first_item
                /\ \A t \in ReadTicks :
                      CH_get(h, t) = IF t <= first_item THEN CH_get(pre, t) ELSE Missing
                /\ Live(h) = <<Live(pre)[1]>>
                /\ Live(pre) = Live(h) \o Reverse(h.list.items.dropped)
                /\ h.list.items.inited = <<>>

\* keep_first_item on a history whose oldest fact is a removal, followed by
\* two values: the newer value is dropped, the removal and the older value stay
C14_Witness ==
    /\ alive /\ op.kind = "keep_first_item"
    /\ SBD_stored_items(pre.list) = 2
    /\ Len(h.list.items.dropped) = 1
    /\ CH_get(pre, SetMin(Facts(pre))) = Removed
    /\ Cardinality(Facts(h)) = 2
    /\ CH_get(h, h.last_tick).tag = "Value"

\* the number of consecutive ticks after te, up to last_tick, that hold no
\* fact in either mask
EmptyRun(x, te) ==
    Cardinality({u \in (te + 1)..x.last_tick :
                    \A w \in (te + 1)..u : FactAt(x, w) = Missing})

\* C15: on a non-empty history, empty_after(t) for t < last_tick is the
\* number of consecutive ticks right after t, up to last_tick, that hold
\* neither a Value nor a Removed marker, a tick older than the window counting
\* as the oldest tracked tick; for t >= last_tick it is 64; on an empty
\* history it is 0.
C15_EmptyAfter ==
    alive => \A t \in ReadTicks :
        CH_empty_after(h, t) =
            IF CH_len(h) = 0 THEN 0
            ELSE IF t >= h.last_tick THEN 64
            ELSE EmptyRun(h, IF t \in Window(h) THEN t
                             ELSE h.last_tick - (CH_len(h) - 1))

\* a window of three ticks with facts at both ends only, and a tick older
\* than the window
C15_Witness ==
    /\ alive
    /\ CH_len(h) = 3
    /\ 0 \notin Window(h)
    /\ CH_empty_after(h, h.last_tick - 2) = 1
    /\ CH_empty_after(h, h.last_tick - 1) = 0
    /\ CH_empty_after(h, 0) = 1
    /\ CH_empty_after(h, h.last_tick) = 64

\* what a double-ended queue of capacity cap that held `items` holds after
\* the operation o
DequeAfter(items, cap, o) ==
    CASE o.kind = "append" ->
            (IF Len(items) = cap THEN Tail(items) ELSE items) \o <<o.v>>
      [] o.kind = "insert" ->
            IF o.ok
            THEN SubSeq(items, 1, o.arg) \o <<o.v>> \o SubSeq(items, o.arg + 1, Len(items))
            ELSE items
      [] o.kind = "drop_front" -> IF items = <<>> THEN items ELSE Tail(items)
      [] o.kind = "drop_back" ->
            IF items = <<>> THEN items ELSE SubSeq(items, 1, Len(items) - 1)
      [] o.kind = "resize" ->
            SubSeq(items, Len(items) - Min2(Len(items), o.arg) + 1, Len(items))
      [] o.kind = "clear" -> <<>>
      [] OTHER -> items

\* C16: after append, insert, drop_front, drop_back, resize and clear,
\* len <= capacity and start < capacity, and logical index i is stored at
\* physical slot (start + i) mod capacity.
C16_RingLayout ==
    /\ dq.len <= dq.capacity
    /\ dq.start >= 0 /\ dq.start < dq.capacity
    /\ [i \in 1..dq.len |-> dq.data[(dq.start + (i - 1)) % dq.capacity]]
           = DequeAfter(Items(dqpre), dqpre.capacity, dqop)

\* an insert in the middle of a deque whose contents wrap around the end of
\* the allocation
C16_Witness ==
    /\ dqop.kind = "insert" /\ dqop.ok
    /\ dqop.arg > 0 /\ dqop.arg < dqpre.len
    /\ dqpre.start + dqpre.len > dqpre.capacity
    /\ \E i, j \in 1..dq.len : Items(dq)[i] # Items(dq)[j]

C18_Case ==
    /\ dqop.kind = "insert"
    /\ (dqpre.len = dqpre.capacity \/ dqop.arg > dqpre.len)

\* C18: insert(at, init) on a full deque (len = capacity) or with at > len
\* returns the failure signal: no unwrap fails, the initializer is not
\* invoked, and len, start and every stored element are what they were.
C18_InsertFails ==
    C18_Case =>
        /\ ~dqop.ok
        /\ ~dq.panic
        /\ dq.inited = <<>>
        /\ dq.dropped = <<>>
        /\ dq.len = dqpre.len
        /\ dq.start = dqpre.start
        /\ dq.capacity = dqpre.capacity
        /\ dq.data = dqpre.data

\* an insert in the middle of a full deque that holds two different elements
C18_Witness ==
    /\ C18_Case
    /\ dqpre.len = dqpre.capacity
    /\ dqop.arg > 0 /\ dqop.arg < dqpre.len
    /\ BD_get(dqpre, 0) # BD_get(dqpre, 1)

\* the authoritative state C19 calls A: get_latest(p) of the authoritative
\* history if there is one and some tick of [p, p + empty_after(p)] is
\* confirmed for the entity or globally, else Missing
C19_A ==
    IF /\ ld.entity_auth /\ auth.exists
       /\ \E t \in ld.p..(ld.p + CH_empty_after(auth.hist, ld.p)) :
             t \in ld.confirmed \cup ld.global
    THEN CH_get_latest(auth.hist, ld.p)
    ELSE Missing

\* the predicted state C19 calls P
C19_P == CH_get_latest(pre, ld.p)

\* C19: a load pass for tick p removes the component when A is Removed, or
\* when A is Missing and P is Removed or Missing; otherwise it sets the
\* component to the authoritative value when A is a Value and to the
\* predicted value only when A is Missing.
C19_LoadDecision ==
    op.kind = "load" =>
        IF C19_A = Removed \/ (C19_A = Missing /\ C19_P \in {Removed, Missing})
        THEN ld.queued = "remove"
        ELSE /\ ld.queued = "insert"
             /\ ld.v = IF C19_A.tag = "Value" THEN C19_A.v ELSE C19_P.v

\* a load that finds an authoritative value and a different predicted value
\* for p, with no confirmation in range: the predicted value is loaded
C19_Witness ==
    /\ op.kind = "load"
    /\ ld.entity_auth /\ auth.exists
    /\ CH_get_latest(auth.hist, ld.p) = Value(AuthoritativeValue)
    /\ ld.confirmed \cup ld.global # {}
    /\ C19_A = Missing
    /\ ld.queued = "insert"
    /\ ld.v = PredictedValue
    /\ PredictedValue # AuthoritativeValue

\* the schedule C20 expects as the j-th one of a rollback from T to C
C20_ScheduleAt(j, T, C) ==
    IF j = 1 THEN "PreRollback"
    ELSE IF j = 2 THEN "Rollback"
    ELSE IF j = 3 THEN "PostRollback"
    ELSE IF j > 3 + 3 * (C - T + 1) THEN "BackToPresent"
    ELSE IF (j - 4) % 3 = 0 THEN "PreResimulation"
    ELSE IF (j - 4) % 3 = 1 THEN "Simulation"
    ELSE "PostResimulation"

\* a rollback to a target at or before the current tick is under way or done
C20_Case ==
    /\ rb.pc \notin {"idle", "calculated", "panicked"}
    /\ rb.start <= rb.real_tick

\* the schedules run so far are the first ones of PreRollback, Rollback,
\* PostRollback, three per tick of T..C, BackToPresent; in the iteration of
\* tick t the tick source is t and LoadFrom is LoadFromOf(t); the target is
\* None; a finished rollback has run all of them
C20_Holds(LoadFromOf(_)) ==
    C20_Case =>
        LET T == rb.start
            C == rb.real_tick
            n == Len(rb.ran)
            all == 3 + 3 * (C - T + 1) + 1
        IN /\ rb.target = None
           /\ n <= all
           /\ rb.pc = "done" <=> n = all
           /\ \A j \in 1..n :
                 /\ rb.ran[j].schedule = C20_ScheduleAt(j, T, C)
                 /\ (3 < j /\ j < all) =>
                       /\ rb.ran[j].tick = T + ((j - 4) \div 3)
                       /\ rb.ran[j].load_from = LoadFromOf(rb.ran[j].tick)

\* C20 as stated: a rollback to a target tick T <= current tick C runs
\* PreRollback, Rollback, PostRollback, then for each tick of T..C in
\* increasing order PreResimulation, the simulation schedule and
\* PostResimulation, then BackToPresent once; in each iteration the tick
\* source is that tick and LoadFrom is that tick minus 1; RollbackTarget is
\* None.
C20_RollbackOrder == C20_Holds(LAMBDA t : t - 1)

\* C20 with LoadFrom as the code computes it: that tick minus 1, and 0 in
\* the iteration of tick 0.
C20_RollbackOrderSaturating == C20_Holds(LAMBDA t : IF t = 0 THEN 0 ELSE t - 1)

\* a finished rollback from tick 0 over three ticks
C20_Witness ==
    /\ rb.pc = "done"
    /\ rb.start = 0
    /\ rb.real_tick = 2
    /\ Len(rb.ran) = 13


\* the last operation was a write or mark_removed at a tick past last_tick
C21_Case ==
    /\ alive
    /\ op.kind \in {"write", "mark_removed"}
    /\ op.tick > pre.last_tick

\* the ticks C21 speaks of: at or before the old last_tick and inside the
\* window that ends at the appended tick
C21_Kept == {t \in ReadTicks : op.tick - pre.list.capacity < t /\ t <= pre.last_tick}

\* C21: a write or mark_removed at a tick n > last_tick leaves get_latest(t)
\* as it was, variant and value, for every tick t with
\* n - capacity < t <= old last_tick.
C21_AppendKeepsOlderAnswers ==
    C21_Case => \A t \in C21_Kept : CH_get_latest(h, t) = CH_get_latest(pre, t)


\* C22: in every reachable state neither the presence mask nor the removed
\* mask has a bit at a position >= len.
C22_NoStaleBits ==
    alive => /\ \A k \in h.list.mask : k < CH_len(h)
             /\ \A k \in h.removed_mask : k < CH_len(h)


\* the oldest tick of the window that ends at the tick of the last operation
C23_First == op.tick - pre.list.capacity + 1

\* the tracked ticks the last operation pushed out of the window
C23_Evicted == {t \in Window(pre) : t < C23_First}

\* the last operation was a write or mark_removed past last_tick that
\* evicted some tracked slots and retained others
C23_Case ==
    /\ alive
    /\ op.kind \in {"write", "mark_removed"}
    /\ op.tick > pre.last_tick
    /\ C23_Evicted # {}
    /\ C23_First <= pre.last_tick

\* the items of the history that were there before the last operation
C23_OldItems == IF op.kind = "write" THEN SubSeq(Live(h), 1, Len(Live(h)) - 1)
                ELSE Live(h)

\* C23: when a forward write or mark_removed evicts some but not all tracked
\* slots and the oldest retained slot holds no fact, the newest evicted fact
\* is moved into that slot and its value is not dropped; when the oldest
\* retained slot holds a fact, the evicted facts are discarded.
C23_PartialEviction ==
    C23_Case =>
        LET lost == C23_Evicted \cap Facts(pre)
            values == {t \in C23_Evicted : (pre.last_tick - t) \in pre.list.mask}
            moved == CH_get(pre, C23_First) = Missing /\ lost # {}
        IN /\ CH_get(h, C23_First) = IF moved THEN CH_get(pre, SetMax(lost))
                                     ELSE CH_get(pre, C23_First)
           /\ \A t \in Window(pre) :
                 (C23_First < t) => CH_get(h, t) = CH_get(pre, t)
           /\ Len(h.list.items.dropped)
                 = Cardinality(values)
                     - (IF moved /\ CH_get(pre, SetMax(lost)).tag = "Value"
                        THEN 1 ELSE 0)
           /\ Live(pre) = h.list.items.dropped \o C23_OldItems


\* the last call was insert(at, x) with at <= len on a deque with a free slot
C24_Case ==
    /\ dqop.kind = "insert"
    /\ dqpre.len < dqpre.capacity
    /\ dqop.arg <= dqpre.len

\* C24: for every capacity, start offset and len < capacity, insert(at, x)
\* with 0 <= at <= len succeeds, leaves get(i) unchanged for i < at, makes
\* get(at) = x, makes get(i + 1) the former get(i) for at <= i < len, and
\* increases len by exactly one.
C24_InsertShifts ==
    C24_Case =>
        /\ dqop.ok
        /\ dq.len = dqpre.len + 1
        /\ dq.capacity = dqpre.capacity
        /\ \A i \in 0..(dqpre.len - 1) :
              i < dqop.arg => BD_get(dq, i) = BD_get(dqpre, i)
        /\ BD_get(dq, dqop.arg) = dqop.v
        /\ \A i \in 0..(dqpre.len - 1) :
              i >= dqop.arg => BD_get(dq, i + 1) = BD_get(dqpre, i)
        /\ dq.inited = <<dqop.v>>
        /\ dq.dropped = <<>>

\* an insert at position 0 of a deque whose first element sits in slot 0 and
\* that holds two different elements: start moves to the last slot
C24_Witness ==
    /\ C24_Case
    /\ dqop.arg = 0
    /\ dqpre.start = 0
    /\ dqpre.len >= 2
    /\ BD_get(dqpre, 0) # BD_get(dqpre, 1)
    /\ dq.start = dq.capacity - 1


SparseTypeOK ==
    /\ sp.len <= sp.capacity
    /\ sp.mask \subseteq 0..(sp.len - 1)
    /\ sp.items.len = Cardinality(sp.mask)
    /\ ~sp.items.panic


\* the values the slots of a sparse deque hold, oldest first
Stored(l) == SelectSeq(Slots(l), LAMBDA x : x # None)

\* C25: replace(index, x) with index < len makes get(index) = x and leaves
\* len and get(j) for every j # index unchanged; a value the slot already
\* held is dropped exactly once and overwritten in place; otherwise the new
\* value is inserted at the physical position that keeps the ring order
\* aligned with the mask bit order, the physical capacity growing by one if
\* the ring was full; replace with index >= len does nothing.
C25_Replace ==
    spop.kind = "replace" =>
        IF spop.arg >= sppre.len THEN sp = sppre
        ELSE /\ sp.len = sppre.len
             /\ sp.capacity = sppre.capacity
             /\ Slots(sp) = [Slots(sppre) EXCEPT ![spop.arg + 1] = spop.v]
             /\ Items(sp.items) = Stored(sp)
             /\ sp.items.inited = <<spop.v>>
             /\ IF Slots(sppre)[spop.arg + 1] # None
                THEN /\ sp.items.dropped = <<Slots(sppre)[spop.arg + 1]>>
                     /\ sp.items.start = sppre.items.start
                     /\ sp.items.capacity = sppre.items.capacity
                     /\ sp.mask = sppre.mask
                     /\ Cardinality({o \in DOMAIN sp.items.data :
                            sp.items.data[o] # sppre.items.data[o]}) <= 1
                ELSE /\ sp.items.dropped = <<>>
                     /\ sp.items.len = sppre.items.len + 1
                     /\ sp.items.capacity = sppre.items.capacity
                            + (IF sppre.items.len = sppre.items.capacity
                               THEN 1 ELSE 0)

\* a replace of an empty slot between two different stored values, in a ring
\* that was full
C25_Witness ==
    /\ spop.kind = "replace"
    /\ spop.arg > 0 /\ spop.arg < sppre.len - 1
    /\ Slots(sppre)[spop.arg + 1] = None
    /\ Slots(sppre)[spop.arg] # None
    /\ Slots(sppre)[spop.arg + 2] # None
    /\ Slots(sppre)[spop.arg] # Slots(sppre)[spop.arg + 2]
    /\ sppre.items.len = sppre.items.capacity
    /\ sp.items.capacity = sppre.items.capacity + 1


\* C26: append adds exactly one logical slot at the newest end: len grows by
\* one up to capacity, at capacity the oldest slot is evicted first and its
\* value, if any, dropped; append(None) leaves the new slot empty and stores
\* no value, append(Some) makes the newest slot hold the new value; every
\* surviving slot keeps its content, one position older.
C26_Append ==
    spop.kind = "append" =>
        LET old == Slots(sppre)
            full == sppre.len = sppre.capacity
            kept == IF full THEN Tail(old) ELSE old
        IN /\ sp.len = Min2(sppre.len + 1, sppre.capacity)
           /\ sp.capacity = sppre.capacity
           /\ Slots(sp) = kept \o <<IF spop.write THEN spop.v ELSE None>>
           /\ sp.items.dropped = IF full /\ Head(old) # None THEN <<Head(old)>>
                                 ELSE <<>>
           /\ sp.items.inited = IF spop.write THEN <<spop.v>> ELSE <<>>
           /\ Items(sp.items) = Stored(sp)

\* an append(None) to a full deque whose oldest slot held a value and whose
\* other slots hold a value and an empty slot
C26_Witness ==
    /\ spop.kind = "append" /\ ~spop.write
    /\ sppre.len = sppre.capacity
    /\ sppre.len >= 3
    /\ Slots(sppre)[1] # None
    /\ \E i \in 2..sppre.len : Slots(sppre)[i] = None
    /\ \E i \in 2..sppre.len : Slots(sppre)[i] # None
    /\ Len(sp.items.dropped) = 1


\* C27: extend_back(n) appends n empty slots at the newest end: every
\* existing slot moves n positions older, the slots pushed beyond capacity
\* are evicted and their values dropped, oldest first and once each, len
\* becomes min(len + n, capacity), and for n >= capacity every value is
\* dropped and len = capacity with all slots empty.
C27_ExtendBack ==
    spop.kind = "extend_back" =>
        LET n == spop.arg
            old == Slots(sppre)
            all == old \o [i \in 1..n |-> None]
            lost == SatSub(Len(all), sppre.capacity)
            evicted == SubSeq(old, 1, Min2(lost, Len(old)))
        IN /\ sp.len = Min2(sppre.len + n, sppre.capacity)
           /\ sp.capacity = sppre.capacity
           /\ Slots(sp) = SubSeq(all, lost + 1, Len(all))
           /\ sp.items.dropped = SelectSeq(evicted, LAMBDA x : x # None)
           /\ sp.items.inited = <<>>
           /\ Items(sp.items) = Stored(sp)
           /\ n >= sppre.capacity =>
                 /\ sp.len = sp.capacity
                 /\ sp.mask = {}
                 /\ sp.items.len = 0

\* an extend_back that evicts two values of
\* a full deque and keeps a value
C27_Witness ==
    /\ spop.kind = "extend_back"
    /\ spop.arg = 2
    /\ sppre.len = 3
    /\ Len(sp.items.dropped) = 2
    /\ sp.items.dropped[1] # sp.items.dropped[2]
    /\ Slots(sp)[1] # None


\* C28: after n appends to an empty BlobDeque of capacity c, whatever its
\* start offset, the buffer holds exactly the last min(n, c) appended values
\* in append order, get(0) the oldest, and each append on a full buffer
\* dropped exactly the then-oldest element.
C28_AppendsKeepNewest ==
    dqlog # <<>> =>
        LET n == Len(dqlog)
            c == dq.capacity
            kept == Min2(n, c)
        IN /\ dq.len = kept
           /\ \A i \in 0..(kept - 1) : BD_get(dq, i) = dqlog[n - kept + 1 + i]
           /\ dq.dropped = IF n > c THEN <<dqlog[n - c]>> ELSE <<>>
           /\ dq.inited = <<dqlog[n]>>

\* four appends to an empty deque of capacity 2 whose start offset is not 0;
\* the last two appended values differ and the last append dropped a value
C28_Witness ==
    /\ Len(dqlog) = 4
    /\ dq.capacity = 2
    /\ dq.start # 0
    /\ dqlog[3] # dqlog[4]
    /\ dqlog[1] # dqlog[2]
    /\ Len(dq.dropped) = 1


\* the tick t is accepted by write and mark_removed on x: x is empty, or t
\* is less than capacity ticks older than last_tick
C29_Accepted(x, t) == CH_len(x) = 0 \/ x.last_tick - t < x.list.capacity

\* C29: applied to the same reachable state with the same tick t,
\* mark_removed(t) and write(t, v) produce the same len, the same last_tick
\* and the same reading of every tick other than t, and differ only in that
\* tick t reads Removed after mark_removed and Value(v) after write.
C29_MarkRemovedLikeWrite ==
    (alive /\ ~h.list.items.panic) =>
        \A t \in Ticks, v \in Values :
            LET w == CH_write(Begin(h), t, v)
                m == CH_mark_removed(Begin(h), t)
            IN /\ CH_len(w) = CH_len(m)
               /\ w.last_tick = m.last_tick
               /\ \A u \in ReadTicks : u # t => CH_get(w, u) = CH_get(m, u)
               /\ C29_Accepted(h, t) =>
                     /\ CH_get(m, t) = Removed
                     /\ CH_get(w, t) = Value(v)


\* C30: whenever len > 0 the oldest tracked slot, tick last_tick - len + 1,
\* holds a fact (Value or Removed), and get_latest(t) is not Missing for any
\* tick t at or after the start of the tracked window.
C30_OldestSlotIsFact ==
    (alive /\ CH_len(h) > 0) =>
        LET first == h.last_tick - CH_len(h) + 1
        IN /\ CH_get(h, first) # Missing
           /\ \A t \in ReadTicks : t >= first => CH_get_latest(h, t) # Missing


\* a forward write or mark_removed evicted the oldest fact while the slot
\* that became the oldest was empty: the fact was moved, the new oldest slot
\* holds it, and a later empty slot of the window reads a fact through
\* get_latest
C30_Witness ==
    /\ C23_Case
    /\ CH_get(pre, C23_First) = Missing
    /\ CH_len(h) = h.list.capacity
    /\ CH_get(h, h.last_tick - CH_len(h) + 1) # Missing
    /\ \E t \in Window(h) : CH_get(h, t) = Missing /\ CH_get_latest(h, t) # Missing


\* the last call was keep_first_item
C31_Case == alive /\ op.kind = "keep_first_item"

\* the tick of the oldest value a history stores
C31_OldestValueTick(x) == x.last_tick - SetMax(x.list.mask)

\* C31: keep_first_item truncates the history so that its oldest stored
\* value becomes the newest tracked tick: every slot newer than that value
\* is discarded and its stored value dropped, every slot at or before it,
\* Missing and Removed slots included, is unchanged; a history that stores
\* no value is left completely unchanged.
C31_KeepFirstItemTruncates ==
    C31_Case =>
        IF pre.list.mask = {} THEN h = pre
        ELSE LET keep == C31_OldestValueTick(pre)
                 cut == pre.last_tick - keep
             IN /\ h.last_tick = keep
                /\ CH_len(h) = CH_len(pre) - cut
                /\ h.list.capacity = pre.list.capacity
                /\ \A t \in Window(pre) :
                      t <= keep => CH_get(h, t) = CH_get(pre, t)
                /\ Window(h) = {t \in Window(pre) : t <= keep}
                /\ h.list.mask = {0}
                /\ Len(h.list.items.dropped) = Cardinality(pre.list.mask) - 1
                /\ h.list.items.dropped
                      = Reverse(SubSeq(Live(pre), 2, Len(Live(pre))))
                /\ Live(h) = <<Live(pre)[1]>>

\* keep_first_item on a history that holds, oldest first, a removal,
\* a value and a newer value: the newer value is dropped
C31_Witness ==
    /\ C31_Case
    /\ Cardinality(pre.list.mask) = 2
    /\ CH_len(pre) >= 3
    /\ \E t \in Window(pre) : /\ t < C31_OldestValueTick(pre)
                              /\ CH_get(pre, t) = Removed
                              /\ CH_get(h, t) = Removed
    /\ Len(h.list.items.dropped) = 1
    /\ CH_get(h, h.last_tick).tag = "Value"

\* keep_first_item on a history that holds removals and no value
C31_WitnessNoValue ==
    /\ C31_Case
    /\ pre.list.mask = {}
    /\ pre.removed_mask # {}
    /\ CH_len(pre) >= 2


\* presence mask | removed mask
C32_Mask == h.list.mask \cup h.removed_mask

\* C32 as stated: first_tick() equals last_tick minus the number of leading
\* zeros of (presence mask | removed mask), that number capped at
\* capacity - 1.
C32_FirstTickLeadingZeros ==
    alive =>
        CH_first_tick(h)
            = h.last_tick - Min2(LeadingZeros(C32_Mask), h.list.capacity - 1)

\* C32 as the code computes it: first_tick() equals last_tick minus the
\* position of the highest set bit of (presence mask | removed mask), which
\* is 63 minus its number of leading zeros, the difference saturating at 0;
\* with no bit set it equals last_tick.
C32_FirstTickHighestBit ==
    alive =>
        CH_first_tick(h)
            = IF C32_Mask = {} THEN h.last_tick
              ELSE Max2(h.last_tick - SetMax(C32_Mask), 0)

\* a history whose oldest fact is two ticks before last_tick
C32_Witness ==
    /\ alive
    /\ CH_len(h) = 3
    /\ 2 \in C32_Mask
    /\ h.last_tick >= 3
    /\ CH_first_tick(h) = h.last_tick - 2
    /\ CH_get(h, CH_first_tick(h)) # Missing


\* an append (write or mark_removed past last_tick) on a non-empty history
C33_Append ==
    /\ alive
    /\ op.kind \in {"write", "mark_removed"}
    /\ pre.list.len > 0
    /\ op.tick > pre.last_tick

\* first position of `pre` that the append pushes out of the window
C33_FirstEvicted == Max2(pre.list.capacity - (op.tick - pre.last_tick), 0)

C33_Candidates(mask) == {p \in mask : p >= C33_FirstEvicted}

\* the slot that becomes the oldest one holds no fact, and both a value and a
\* removal are about to be evicted: relocation has to choose
C33_Case ==
    /\ C33_Append
    /\ (C33_FirstEvicted - 1) \notin (pre.list.mask \cup pre.removed_mask)
    /\ C33_Candidates(pre.list.mask) # {}
    /\ C33_Candidates(pre.removed_mask) # {}

C33_ItemDistance == SetMin(C33_Candidates(pre.list.mask))
C33_RemovedDistance == SetMin(C33_Candidates(pre.removed_mask))

\* what the oldest slot of the history holds after the append
C33_OldestIsItem ==
    /\ (h.list.capacity - 1) \in h.list.mask
    /\ (h.list.capacity - 1) \notin h.removed_mask
C33_OldestIsRemoved ==
    /\ (h.list.capacity - 1) \in h.removed_mask
    /\ (h.list.capacity - 1) \notin h.list.mask

\* C33 as stated: when gap relocation has to choose between a value and a
\* removal it relocates the one at the smaller distance, and the value when
\* both are at the same distance.
C33_TieFavoursItem ==
    C33_Case =>
        IF C33_ItemDistance <= C33_RemovedDistance
        THEN C33_OldestIsItem ELSE C33_OldestIsRemoved

\* C33 as the code decides: the fact at the smaller distance is relocated;
\* at equal distance trim_front (the tie is in the slot evicted last)
\* relocates the value, while fill_gaps (the tie is further back) relocates
\* the removal.
C33_TieBySite ==
    C33_Case =>
        IF C33_ItemDistance < C33_RemovedDistance THEN C33_OldestIsItem
        ELSE IF C33_RemovedDistance < C33_ItemDistance THEN C33_OldestIsRemoved
        ELSE IF C33_ItemDistance = C33_FirstEvicted THEN C33_OldestIsItem
        ELSE C33_OldestIsRemoved

\* fill_gaps met a tie behind the slot evicted last and relocated the removal
C33_Witness ==
    /\ C33_Case
    /\ C33_ItemDistance = C33_RemovedDistance
    /\ C33_ItemDistance > C33_FirstEvicted
    /\ C33_OldestIsRemoved

\* trim_front met a tie and relocated the value
C33_WitnessTrim ==
    /\ C33_Case
    /\ C33_ItemDistance = C33_RemovedDistance
    /\ C33_ItemDistance = C33_FirstEvicted
    /\ C33_OldestIsItem

\* no tie: the nearer of a value and a removal was relocated
C33_WitnessNearer ==
    /\ C33_Case
    /\ C33_ItemDistance # C33_RemovedDistance


\* the last operation stored a value in a slot that held none
C34_StoresValue ==
    \/ spop.kind = "append" /\ spop.write
    \/ /\ spop.kind = "replace"
       /\ spop.arg < sppre.len
       /\ SBD_get(sppre, spop.arg) = None

\* the last operation evicted or dropped at least one value
C34_Evicted == sp.items.dropped # <<>>

\* C34: the ring inside a SparseBlobDeque starts with capacity 1, grows by
\* exactly one slot and only when a value is stored while the ring is full,
\* never exceeds the logical capacity, never shrinks, and is left alone by
\* operations that only add empty slots.
C34_RingCapacity ==
    /\ spop.kind = "new" => sp.items.capacity = 1
    /\ sp.items.capacity <= sp.capacity
    /\ sp.items.capacity >= sppre.items.capacity
    /\ sp.items.capacity # sppre.items.capacity =>
           /\ sp.items.capacity = sppre.items.capacity + 1
           /\ C34_StoresValue
           /\ sppre.items.len = sppre.items.capacity
    /\ (\/ spop.kind = "append" /\ ~spop.write
        \/ spop.kind \in {"extend_front", "extend_back"}) =>
           sp.items.capacity = sppre.items.capacity

\* the ring grew by one slot for a replace on an empty slot
C34_Witness ==
    /\ spop.kind = "replace"
    /\ sp.items.capacity = sppre.items.capacity + 1
    /\ sp.items.capacity = 2

\* a value was evicted from a grown ring and the ring kept its capacity
C34_WitnessEvict ==
    /\ C34_Evicted
    /\ sp.items.capacity = 2
    /\ sp.items.len < sppre.items.len

\* a full ring at the logical capacity stored a value without growing
C34_WitnessAtCapacity ==
    /\ spop.kind = "append" /\ spop.write
    /\ sppre.items.len = sppre.capacity
    /\ sp.items.capacity = sp.capacity
    /\ sp.capacity = 2


\* the last operation on the history kept every subtraction in range
C35_LastInRange ==
    CASE op.kind = "write" -> CH_write_InRange(pre, op.tick)
      [] op.kind = "mark_removed" -> CH_mark_removed_InRange(pre, op.tick)
      [] OTHER -> TRUE

\* C35: on a history of any accepted capacity, 1 included, no operation
\* takes a subtraction below zero: trim_front's `len - 2` and fill_gaps's
\* `retained - 1` stay in range.
C35_NoUnderflow == C35_LastInRange

\* the same on histories of capacity 2 and more
C35_NoUnderflowFromTwo == h.list.capacity >= 2 => C35_LastInRange


C36_Case == alive /\ op.kind = "load"

\* the load found no fact at or before p, in either history
C36_BeforeHistory == C19_A = Missing /\ C19_P = Missing

\* the tick of the earliest value the predicted history stored before the load
C36_ValueTicks == {t \in Window(pre) : CH_get(pre, t).tag = "Value"}
C36_EarliestValueTick == SetMin(C36_ValueTicks)

\* C36, first half: after a load for tick p that found a fact, the predicted
\* history holds nothing newer than p.
C36_CleanedToLoadTick ==
    (C36_Case /\ ~C36_BeforeHistory) =>
        /\ \A t \in ReadTicks : t > ld.p => CH_get(h, t) = Missing
        /\ \A t \in ReadTicks : t <= ld.p => CH_get(h, t) = CH_get(pre, t)
        /\ h.last_tick = Min2(pre.last_tick, ld.p)

\* C36, second half: after a load for tick p that found no fact at or before p
\* the component is removed and the predicted history keeps its earliest
\* stored value, which a later load for that value's tick inserts again.
C36_EarliestValueSurvives ==
    (C36_Case /\ C36_BeforeHistory) =>
        /\ ld.queued = "remove"
        /\ C36_ValueTicks # {} =>
               LET t == C36_EarliestValueTick
                   later == LoadComponent(h, NoAuth(MaxCap), FALSE, {}, {}, t)
               IN /\ CH_get(pre, t).tag = "Value"
                  /\ CH_get(h, t) = CH_get(pre, t)
                  /\ CH_get_latest(h, t) = CH_get(pre, t)
                  /\ later.queued = "insert"
                  /\ later.v = CH_get(pre, t).v
                  /\ h.last_tick = t

\* the second half on histories in which no tick carries both mask bits
C36_EarliestValueSurvivesDisjoint ==
    pre.removed_mask \cap pre.list.mask = {} => C36_EarliestValueSurvives

\* C36: both halves
C36_LoadClearsPrediction == C36_CleanedToLoadTick /\ C36_EarliestValueSurvives

\* a load that found a fact dropped newer predicted data
C36_Witness ==
    /\ C36_Case /\ ~C36_BeforeHistory
    /\ pre.last_tick > ld.p
    /\ h.last_tick = ld.p
    /\ Len(h.list.items.dropped) > 0

\* a load from before the history kept the earliest value, newer than p
C36_WitnessBefore ==
    /\ C36_Case /\ C36_BeforeHistory
    /\ Cardinality(pre.list.mask) = 2
    /\ pre.removed_mask = {}
    /\ h.last_tick > ld.p
    /\ h.list.mask = {0}


\* the recorded runs of PreResimulation, in order
C37_PreResimulations ==
    SelectSeq(rb.ran, LAMBDA r : r.schedule = "PreResimulation")

\* C37, during the rollback: the systems of RollbackLoadSet are skipped in
\* the PreResimulation run of the first resimulated tick and run in every
\* later one, and PreResimulation itself runs once for every resimulated
\* tick so far.
C37_LoadSetSkipsFirstTick ==
    LET runs == C37_PreResimulations
    IN /\ \A j \in 1..Len(runs) :
              /\ runs[j].tick = rb.start + j - 1
              /\ RollbackLoadSetRuns(runs[j]) <=> j > 1
       /\ rb.pc = "done" => Len(runs) = Max2(rb.real_tick - rb.start + 1, 0)

\* C37, afterwards: AlreadyLoaded is absent once the rollback has finished
C37_AbsentWhenDone == rb.pc = "done" => ~rb.already_loaded

\* C37: both parts
C37_AlreadyLoaded == C37_LoadSetSkipsFirstTick /\ C37_AbsentWhenDone

\* the last part for rollbacks whose target is not ahead of the current tick
C37_AbsentWhenDoneFromPast ==
    (rb.pc = "done" /\ rb.start <= rb.real_tick) => ~rb.already_loaded

\* a rollback over three ticks: the load set ran for the second and third
C37_Witness ==
    /\ rb.pc = "done"
    /\ Len(C37_PreResimulations) = 3
    /\ ~RollbackLoadSetRuns(C37_PreResimulations[1])
    /\ RollbackLoadSetRuns(C37_PreResimulations[3])

\* a rollback to a tick ahead of the current one finished
C37_WitnessAhead ==
    /\ rb.pc = "done"
    /\ rb.start > rb.real_tick


\* the VecDeque of an InputHistory never grows, and holds at most its
\* capacity
InputTypeOK ==
    /\ ih.capacity = HistoryInitCap
    /\ Len(ih.list) <= ih.capacity
    /\ Len(iq.queue) <= QueueCap
    /\ Len(iq.past) <= PastCap


\* the entries of a sequence, as a set
C38_Entries(seq) == {seq[i] : i \in 1..Len(seq)}

C38_Case == iqop.kind = "next"

\* the queued input for exactly the tick asked, if any
C38_Exact == {e \in C38_Entries(iqpre.queue) : e.tick = iqop.tick}

\* the earlier inputs next can fall back on, each with the tick it was
\* queued for: the queued inputs for older ticks and the inputs handed out
C38_Earlier ==
    {[v |-> e.v, orig |-> e.tick] :
        e \in {x \in C38_Entries(iqpre.queue) : x.tick < iqop.tick}}
    \cup {[v |-> e.v, orig |-> e.orig] : e \in C38_Entries(iqpre.past)}

\* the same with the tick recorded in `past` in place of the tick the input
\* was queued for
C38_EarlierRecorded ==
    {[v |-> e.v, orig |-> e.tick] :
        e \in {x \in C38_Entries(iqpre.queue) : x.tick < iqop.tick}}
    \cup {[v |-> e.v, orig |-> e.tick] : e \in C38_Entries(iqpre.past)}

C38_Holds(earlier) ==
    C38_Case =>
        IF C38_Exact # {}
        THEN /\ \A e \in C38_Exact : iqop.ret = e.v
             /\ iq.past # <<>>
             /\ iq.past[Len(iq.past)].tick = iqop.tick
             /\ iq.past[Len(iq.past)].v = iqop.ret
        ELSE iqop.ret # None =>
                 /\ iqpre.repeats
                 /\ \E e \in earlier :
                       /\ iqop.ret = e.v
                       /\ e.orig <= iqop.tick
                       /\ iqop.tick - e.orig <= RepeatLimit

\* C38: next(t) returns the input queued for exactly t when there is one and
\* records it in past; otherwise it returns a copy of an earlier input only
\* if the input type repeats and that input was queued for a tick at most 5
\* before t; in every other case it returns None.
C38_RepeatWithinLimit == C38_Holds(C38_Earlier)

\* the same, counting the 5 ticks from the tick recorded in `past`
C38_RepeatWithinLimitOfRecord == C38_Holds(C38_EarlierRecorded)

\* an input handed out again more than 5 ticks after the tick it was queued
\* for
C38_WitnessLate ==
    /\ C38_Case /\ C38_Exact = {}
    /\ iqop.ret # None
    /\ \A e \in C38_Earlier : iqop.tick - e.orig > RepeatLimit

\* a repeat within the limit, and a refusal beyond it
C38_WitnessRepeat ==
    /\ C38_Case /\ C38_Exact = {}
    /\ iqop.ret # None
    /\ \E e \in C38_Earlier : iqop.tick - e.orig = RepeatLimit


\* the first tick add may take from the history: the latest of the tick
\* argument, the tick after the last queued one and the history's first tick
C39_From ==
    Max2(IH_first_tick(iqop.hist),
         Max2(iqop.tick, IF iqpre.queue = <<>> THEN 0
                         ELSE iqpre.queue[Len(iqpre.queue)].tick + 1))

\* the entries of the history add was given that are not too old, oldest
\* first, each with its tick and its input
C39_Wanted ==
    [j \in 1..Max2(iqop.hist.updated_at - C39_From + 1, 0) |->
        [tick |-> C39_From + j - 1, v |-> IH_get(iqop.hist, C39_From + j - 1)]]

\* C39: the queued ticks are strictly increasing and the queue holds at most
\* 30 entries; add(t, h) leaves the queued entries in place and appends the
\* entries of h for ticks >= t and above the last queued tick, oldest first,
\* as many as fit.
C39_QueueOrderedAndBounded ==
    /\ \A i \in 1..(Len(iq.queue) - 1) : iq.queue[i].tick < iq.queue[i + 1].tick
    /\ Len(iq.queue) <= QueueCap
    /\ iqop.kind = "add" =>
           /\ iq.past = iqpre.past
           /\ iq.queue =
                  iqpre.queue \o
                      SubSeq(C39_Wanted, 1,
                             Min2(Len(C39_Wanted), QueueCap - Len(iqpre.queue)))
           /\ \A i \in 1..Len(iq.queue) : iq.queue[i].v # None

\* an add that skipped the entries of its history that were too old and
\* appended the rest behind the queued ones
C39_Witness ==
    /\ iqop.kind = "add"
    /\ iqpre.queue # <<>>
    /\ Len(iq.queue) > Len(iqpre.queue)
    /\ IH_first_tick(iqop.hist) < C39_From
    /\ iqop.tick < C39_From
    /\ Len(iq.queue) < QueueCap

\* an add whose history did not fit: the queue is full and the newest
\* entries of the history were left out
C39_WitnessFull ==
    /\ iqop.kind = "add"
    /\ 0 < Len(iqpre.queue) /\ Len(iqpre.queue) < QueueCap
    /\ Len(iq.queue) = QueueCap
    /\ iq.queue[QueueCap].tick < iqop.hist.updated_at


C40_Case == ihop.kind = "write"

\* the write was for a tick above updated_at
C40_Accepted == C40_Case /\ ihop.tick > ihpre.updated_at

\* the write jumped further than the capacity
C40_Cleared == ihop.tick - ihpre.updated_at > ihpre.capacity

\* what C40 says of every write but the reading of the skipped ticks
C40_Rest ==
    /\ (C40_Case /\ ~C40_Accepted) => ih = ihpre
    /\ C40_Accepted =>
           /\ ih.updated_at = ihop.tick
           /\ IH_get(ih, ihop.tick) = ihop.v
           /\ Len(ih.list) <= ih.capacity
           /\ ih.capacity = ihpre.capacity
           /\ \A t \in 0..MaxInputTick :
                  t <= ihpre.updated_at =>
                      IH_get(ih, t) =
                          IF C40_Cleared \/ t + ih.capacity <= ihop.tick THEN None
                          ELSE IH_get(ihpre, t)
           /\ (C40_Cleared /\ ihpre.list # <<>>) => ih.list = <<ihop.v>>

\* the skipped ticks read as the default input
C40_SkippedReadDefault ==
    \A t \in 0..MaxInputTick :
        (ihpre.updated_at < t /\ t < ihop.tick) => IH_get(ih, t) = DefaultInput

\* C40 as stated: a write at or below updated_at changes nothing; a write
\* above it sets updated_at and the input read at its tick, makes every
\* skipped tick read as the default input unless the jump exceeds the
\* capacity, keeps the older ticks that still fit, never holds more entries
\* than the capacity, and clears the old entries when the jump exceeds the
\* capacity.
C40_WriteFillsEveryGap ==
    /\ C40_Rest
    /\ (C40_Accepted /\ ~C40_Cleared) => C40_SkippedReadDefault

\* C40 amended: the skipped ticks read as the default input when the
\* history held entries before the write; in a history that held none they
\* read as None, like every tick before the first entry.
C40_WriteFillsGapAfterEntries ==
    /\ C40_Rest
    /\ (C40_Accepted /\ ~C40_Cleared /\ ihpre.list # <<>>) => C40_SkippedReadDefault
    /\ (C40_Accepted /\ ihpre.list = <<>>) =>
           /\ ih.list = <<ihop.v>>
           /\ \A t \in 0..MaxInputTick : t < ihop.tick => IH_get(ih, t) = None

\* a write over a gap in a full history: defaults for the skipped ticks, the
\* oldest entries evicted, the rest readable as before
C40_Witness ==
    /\ C40_Accepted /\ ~C40_Cleared
    /\ Len(ihpre.list) = ihpre.capacity
    /\ ihop.tick > ihpre.updated_at + 2
    /\ Len(ih.list) = ih.capacity
    /\ \E t \in 0..MaxInputTick :
          t <= ihpre.updated_at /\ IH_get(ih, t) \in Values

\* a write that cleared the old entries
C40_WitnessCleared ==
    /\ C40_Accepted /\ C40_Cleared
    /\ Len(ihpre.list) > 1
    /\ ih.list = <<ihop.v>>

\* a first write above tick 1 into an empty history
C40_WitnessEmpty ==
    /\ C40_Accepted
    /\ ihpre.list = <<>>
    /\ ihop.tick > 1

====
